---- MODULE Spec2Model ----
(***************************************************************************)
(* Model of the beatmap classification / recommendation reconciliation     *)
(* workflow of the Kon! bot plugin (src/test1/plugins/t1).                  *)
(*                                                                         *)
(* The relational store is a MySQL server shared by every handler: each    *)
(* helper opens its own connection, runs its statement(s) and commits.     *)
(* A step of the model is one committed statement (or one statement of an  *)
(* open transaction); handlers interleave between such steps.              *)
(*                                                                         *)
(* Conventions                                                             *)
(*   - Python None / SQL NULL is the string Null where a string is held,   *)
(*     and NullNum where a number or a timestamp is held.                  *)
(*   - what get_oracle_classification returns is a record: isdict tells    *)
(*     a dict from None, items holds the dict as <<label, prob>> pairs.    *)
(*   - probabilities are integers in percent (0.5 is 50).                  *)
(*   - the non-ASCII alias keys of TYPE_ALIASES are transliterated:        *)
(*     chuan, tiao, qiangshuang, keji, qita, qita2.                        *)
(***************************************************************************)
EXTENDS Integers, Sequences, FiniteSets, TLC

VARIABLES
    analysis,        \* table BeatmapAnalysis: set of rows
    pending,         \* table PendingBeatmapReviews: set of rows
    recommendations, \* table Recommendations: sequence of rows (id = index)
    rec,             \* handle_recommend_command invocations: p -> locals
    adm,             \* handle_pending_command invocations: a -> locals
    clock,           \* datetime.now(), as a logical time
    invocations,     \* number of recommend commands received so far
    lastOverride,    \* history: bid -> new_type of the last committed override
    OSU_TOKEN_CACHE, \* utils.py 13-16: access_token, expires_at
    api,             \* calls of the osu! API in progress: c -> locals
    issued,          \* number of tokens the osu! server has issued so far
    UserBindings,    \* table: rows qqid, osu_uid, in the order of insertion
    bnd              \* bind and unbind commands in progress: b -> locals

\* the token cache and what uses it
tokenVars == <<OSU_TOKEN_CACHE, api, issued>>

\* the bindings and the commands that change them
bindVars == <<UserBindings, bnd>>

vars == <<analysis, pending, recommendations, rec, adm, clock, invocations,
          lastOverride, tokenVars, bindVars>>

Null == "null"
NullNum == 0 - 1

----------------------------------------------------------------------------
(* Bounds and input sets *)

\* recommend commands received in one run (bounds the Recommendations log)
MaxInvocations == 1

Bids == {1, 2}
\* handler instances: every specification runs one recommend command at a
\* time
RecProcs == {"r1"}
AdmProcs == {"a1"}
QQIds == {10001}

----------------------------------------------------------------------------
(* recommend.py: TYPE_ALIASES, VALID_TYPES *)

AliasKeys ==
    {"chuan", "stream", "tiao", "jump", "aim", "qiangshuang", "alt",
     "keji", "tech", "qita", "qita2", "others"}

TYPE_ALIASES ==
    [k \in AliasKeys |->
        CASE k \in {"chuan", "stream"} -> "stream"
          [] k \in {"tiao", "jump", "aim"} -> "jump"
          [] k \in {"qiangshuang", "alt"} -> "alt"
          [] k \in {"keji", "tech"} -> "tech"
          [] OTHER -> "others"]

VALID_TYPES == {TYPE_ALIASES[k] : k \in AliasKeys}

\* str.lower() on the label spellings the model uses
Lower(s) ==
    CASE s = "Stream" -> "stream"
      [] s = "STREAM" -> "stream"
      [] s = "Jump" -> "jump"
      [] s = "Aim" -> "aim"
      [] s = "Tech" -> "tech"
      [] s = "ALT" -> "alt"
      [] s = "Others" -> "others"
      [] s = "Foo" -> "foo"
      [] OTHER -> s

\* dict.get(key) on a dict held as a sequence of <<key, value>> pairs
\* with distinct keys (insertion order kept); NullNum when the key is absent
DictGet(d, key) ==
    IF \E i \in 1..Len(d) : d[i][1] = key
    THEN (d[CHOOSE i \in 1..Len(d) : d[i][1] = key])[2]
    ELSE NullNum

\* a plausible slip: normalized_probs[k] = prob, the later alias replaces
\* the earlier one
DictAdd_replace(d, key, v) ==
    IF \E i \in 1..Len(d) : d[i][1] = key
    THEN [i \in 1..Len(d) |-> IF d[i][1] = key THEN <<key, v>> ELSE d[i]]
    ELSE Append(d, <<key, v>>)

\* normalized_probs[k] = normalized_probs.get(k, 0) + prob
DictAdd(d, key, v) ==
    IF \E i \in 1..Len(d) : d[i][1] = key
    THEN [i \in 1..Len(d) |->
            IF d[i][1] = key THEN <<key, d[i][2] + v>> ELSE d[i]]
    ELSE Append(d, <<key, v>>)

\* TYPE_ALIASES.get(key.lower(), key.lower())
NormalizedKey(label) ==
    IF Lower(label) \in AliasKeys THEN TYPE_ALIASES[Lower(label)]
    ELSE Lower(label)

\* recommend.py 123-127: the normalizing loop over raw_probs.items()
RECURSIVE Normalize(_, _)
Normalize(raw, acc) ==
    IF raw = <<>> THEN acc
    ELSE LET k == NormalizedKey(Head(raw)[1])
         IN  Normalize(Tail(raw),
                       IF k \in VALID_TYPES
                       THEN DictAdd(acc, k, Head(raw)[2])
                       ELSE acc)

\* probability > 0.5
Threshold == 50

\* a plausible slip: probability >= 0.5
ExceedsThreshold_geq(probability) == probability >= Threshold

ExceedsThreshold(probability) == probability > Threshold

\* a plausible slip: the threshold test is left out
FirstAbove_first(np) == IF np = <<>> THEN "others" ELSE Head(np)[1]

\* recommend.py 132-136: the first type, in iteration order, above 0.5
RECURSIVE FirstAbove(_)
FirstAbove(np) ==
    IF np = <<>> THEN "others"
    ELSE IF ExceedsThreshold(Head(np)[2]) THEN Head(np)[1]
    ELSE FirstAbove(Tail(np))

\* what get_oracle_classification(bid, return_raw_probs=True) returns
OracleNone == [isdict |-> FALSE, items |-> <<>>]
OracleDict(items) == [isdict |-> TRUE, items |-> items]

\* Python truthiness of raw_oracle_probabilities: None and {} are falsy
Truthy(raw_probs) == raw_probs.isdict /\ raw_probs.items # <<>>

\* recommend.py 127: normalized_probs.get(normalized_key, 0) + prob raises
\* TypeError when the value of a label of a valid type is no number
\* (JSON null, held as NullNum); nothing up to the handler catches it
NormalizeRaises(raw_probs) ==
    /\ raw_probs.isdict
    /\ \E i \in 1..Len(raw_probs.items) :
          /\ NormalizedKey(raw_probs.items[i][1]) \in VALID_TYPES
          /\ raw_probs.items[i][2] = NullNum

\* recommend.py 305-308: the text of the probabilities; sorting by value
\* and the format .2% raise TypeError on a value that is no number
DisplayRaises(raw_probs) ==
    /\ Truthy(raw_probs)
    /\ \E i \in 1..Len(raw_probs.items) : raw_probs.items[i][2] = NullNum

\* recommend.py 111-136: get_oracle_analysis_results, given what
\* get_oracle_classification returned.  Returns <<raw_probs, type>>.
get_oracle_analysis_results(raw_probs) ==
    IF ~raw_probs.isdict THEN <<OracleNone, "others">>
    ELSE IF raw_probs.items = <<>> THEN <<raw_probs, "others">>
    ELSE LET normalized_probs == Normalize(raw_probs.items, <<>>)
         IN  IF normalized_probs = <<>> THEN <<raw_probs, "others">>
             ELSE <<raw_probs, FirstAbove(normalized_probs)>>

----------------------------------------------------------------------------
(* The tables.  BeatmapAnalysis and PendingBeatmapReviews are keyed by bid  *)
(* (both are written with INSERT ... ON DUPLICATE KEY UPDATE).              *)

HasRow(table, bid) == \E r \in table : r.bid = bid
RowOf(table, bid) == CHOOSE r \in table : r.bid = bid
RowsOf(table, bid) == {r \in table : r.bid = bid}

\* the VALUES(...) of store_beatmap_analysis, recommend.py 159-164
AnalysisValues(bid, probs, determined_type, is_auto_typed, now) ==
    LET p == IF Truthy(probs) THEN probs.items ELSE <<>>
    IN  [bid |-> bid,
         determined_b_type |-> determined_type,
         is_auto_typed |-> is_auto_typed,
         stream_prob |-> DictGet(p, "stream"),
         jump_prob |-> DictGet(p, "jump"),
         alt_prob |-> DictGet(p, "alt"),
         tech_prob |-> DictGet(p, "tech"),
         oracle_last_run_at |-> IF probs.isdict THEN now ELSE NullNum,
         reviewed_by_admin_id |-> Null]

\* a plausible slip: the upsert overwrites the type and the flag
\* whatever the stored flag is
OnDuplicateKeyUpdate_unguarded(row, v) ==
    [row EXCEPT !.determined_b_type = v.determined_b_type,
                !.is_auto_typed = v.is_auto_typed,
                !.stream_prob = v.stream_prob,
                !.jump_prob = v.jump_prob,
                !.alt_prob = v.alt_prob,
                !.tech_prob = v.tech_prob,
                !.oracle_last_run_at = v.oracle_last_run_at]

\* a plausible slip: the type is guarded, the flag is not
\* (is_auto_typed = VALUES(is_auto_typed))
OnDuplicateKeyUpdate_flag_unguarded(row, v) ==
    [row EXCEPT !.determined_b_type =
                    IF row.is_auto_typed THEN v.determined_b_type
                    ELSE row.determined_b_type,
                !.is_auto_typed = v.is_auto_typed,
                !.stream_prob = v.stream_prob,
                !.jump_prob = v.jump_prob,
                !.alt_prob = v.alt_prob,
                !.tech_prob = v.tech_prob,
                !.oracle_last_run_at = v.oracle_last_run_at]

\* a plausible slip: the probability columns and the run time are written
\* through COALESCE, so that a failed oracle call keeps what was stored
OnDuplicateKeyUpdate_coalesce(row, v) ==
    LET keep(new, old) == IF new = NullNum THEN old ELSE new
        r1 == [row EXCEPT !.determined_b_type =
                   IF row.is_auto_typed THEN v.determined_b_type
                   ELSE row.determined_b_type]
        r2 == [r1 EXCEPT !.is_auto_typed =
                   IF r1.is_auto_typed THEN v.is_auto_typed
                   ELSE r1.is_auto_typed]
    IN  [r2 EXCEPT !.stream_prob = keep(v.stream_prob, row.stream_prob),
                   !.jump_prob = keep(v.jump_prob, row.jump_prob),
                   !.alt_prob = keep(v.alt_prob, row.alt_prob),
                   !.tech_prob = keep(v.tech_prob, row.tech_prob),
                   !.oracle_last_run_at =
                       keep(v.oracle_last_run_at, row.oracle_last_run_at)]

\* recommend.py 150-157: ON DUPLICATE KEY UPDATE; the assignments are
\* evaluated left to right on the stored row
OnDuplicateKeyUpdate(row, v) ==
    LET r1 == [row EXCEPT !.determined_b_type =
                   IF row.is_auto_typed THEN v.determined_b_type
                   ELSE row.determined_b_type]
        r2 == [r1 EXCEPT !.is_auto_typed =
                   IF r1.is_auto_typed THEN v.is_auto_typed
                   ELSE r1.is_auto_typed]
    IN  [r2 EXCEPT !.stream_prob = v.stream_prob,
                   !.jump_prob = v.jump_prob,
                   !.alt_prob = v.alt_prob,
                   !.tech_prob = v.tech_prob,
                   !.oracle_last_run_at = v.oracle_last_run_at]

\* recommend.py 138-170: the table after store_beatmap_analysis committed
store_beatmap_analysis(table, bid, probs, determined_type, is_auto_typed, now) ==
    LET v == AnalysisValues(bid, probs, determined_type, is_auto_typed, now)
    IN  IF HasRow(table, bid)
        THEN {IF r.bid = bid THEN OnDuplicateKeyUpdate(r, v) ELSE r : r \in table}
        ELSE table \cup {v}

\* recommend.py 172-190: UPDATE ... WHERE bid = %s AND is_auto_typed = 0
store_beatmap_analysis_probabilities_only(table, bid, probs, now) ==
    LET p == IF Truthy(probs) THEN probs.items ELSE <<>>
    IN  {IF r.bid = bid /\ ~r.is_auto_typed
         THEN [r EXCEPT !.stream_prob = DictGet(p, "stream"),
                        !.jump_prob = DictGet(p, "jump"),
                        !.alt_prob = DictGet(p, "alt"),
                        !.tech_prob = DictGet(p, "tech"),
                        !.oracle_last_run_at = now]
         ELSE r : r \in table}

\* a plausible slip: a plain INSERT into a table without the key on bid
add_to_pending_review_insert(table, bid, reason, recommendation_id, now) ==
    table \cup {[bid |-> bid, reason_for_pending |-> reason,
                 triggered_by_recommendation_id |-> recommendation_id,
                 added_to_queue_at |-> now]}

\* recommend.py 192-210: the table after add_to_pending_review committed
add_to_pending_review(table, bid, reason, recommendation_id, now) ==
    LET v == [bid |-> bid, reason_for_pending |-> reason,
              triggered_by_recommendation_id |-> recommendation_id,
              added_to_queue_at |-> now]
    IN  {r \in table : r.bid # bid} \cup {v}

\* a plausible slip: REPLACE INTO a table keyed by (qqid, bid), so that a
\* second recommendation of a beatmap by a user takes the place of the first
store_recommendation_replace(table, qqid, bid, user_req_type, actual_rec_type, description) ==
    Append(SelectSeq(table, LAMBDA r : ~(r.qqid = qqid /\ r.bid = bid)),
           [qqid |-> qqid, bid |-> bid,
            user_requested_type |-> user_req_type,
            actual_recommend_type |-> actual_rec_type,
            recommendation_description |-> description])

\* recommend.py 212-233: the table after store_recommendation committed;
\* cursor.lastrowid is the new row's index
store_recommendation(table, qqid, bid, user_req_type, actual_rec_type, description) ==
    Append(table, [qqid |-> qqid, bid |-> bid,
                   user_requested_type |-> user_req_type,
                   actual_recommend_type |-> actual_rec_type,
                   recommendation_description |-> description])

\* admin_tool.py 59-63: UPDATE BeatmapAnalysis SET determined_b_type = %s,
\* is_auto_typed = 0, ..., reviewed_by_admin_id = %s WHERE bid = %s
AdminUpdate(table, bid, new_type, admin_id) ==
    {IF r.bid = bid
     THEN [r EXCEPT !.determined_b_type = new_type,
                    !.is_auto_typed = FALSE,
                    !.reviewed_by_admin_id = admin_id]
     ELSE r : r \in table}

\* a plausible slip: the DELETE names the analysis table's flag and so
\* removes nothing from the queue
AdminDelete_nothing(table, bid) == table

\* admin_tool.py 66: DELETE FROM PendingBeatmapReviews WHERE bid = %s
AdminDelete(table, bid) == {r \in table : r.bid # bid}

----------------------------------------------------------------------------
(* handle_recommend_command, recommend.py 271-426.  The locals of an      *)
(* invocation last until it returns: "done" keeps the reply only.          *)
(* official_beatmap_data: the metadata fetch returned a beatmap;            *)
(* writes: the store writes of the invocation that committed so far;       *)
(* found_manual: its analysis upsert met a row with is_auto_typed = 0.     *)

\* the reason_for_pending strings of recommend.py 350, 352, 359, 361
NoReason == [code |-> Null, user |-> Null, oracle |-> Null]
MismatchReason(user_type, oracle_type) ==
    [code |-> "User specified, oracle", user |-> user_type, oracle |-> oracle_type]
Reason(code) == [code |-> code, user |-> Null, oracle |-> Null]

\* a plausible slip: a user type that differs from the administrator's is
\* sent to the review queue, as the mismatch of Case A is
CaseB_review(db_type, user_type, raw, oracle_type) ==
    [is_auto_typed_in_db |-> FALSE,
     db_determined_b_type |-> db_type,
     final_determined_b_type_for_db |-> db_type,
     actual_recommend_type |-> IF user_type # Null THEN user_type ELSE db_type,
     additional_messages |->
        IF user_type # Null /\ user_type # db_type
        THEN <<"admin_fixed_type">> ELSE <<>>,
     review_reason |->
        IF user_type # Null /\ user_type # db_type
        THEN MismatchReason(user_type, db_type) ELSE NoReason,
     next |-> IF user_type # Null /\ user_type # db_type THEN "review"
              ELSE IF raw.isdict THEN "probs_only" ELSE "record"]

\* a plausible slip: the recommendation takes the administrator's type
\* even when the user gave one
CaseB_stored_type(db_type, user_type, raw, oracle_type) ==
    [is_auto_typed_in_db |-> FALSE,
     db_determined_b_type |-> db_type,
     final_determined_b_type_for_db |-> db_type,
     actual_recommend_type |-> db_type,
     additional_messages |->
        IF user_type # Null /\ user_type # db_type
        THEN <<"admin_fixed_type">> ELSE <<>>,
     review_reason |-> NoReason,
     next |-> IF raw.isdict THEN "probs_only" ELSE "record"]

\* a plausible slip: the test "is not None" of recommend.py 341 is left
\* out, and a failed oracle call too rewrites the probabilities
CaseB_always_refresh(db_type, user_type, raw, oracle_type) ==
    [is_auto_typed_in_db |-> FALSE,
     db_determined_b_type |-> db_type,
     final_determined_b_type_for_db |-> db_type,
     actual_recommend_type |-> IF user_type # Null THEN user_type ELSE db_type,
     additional_messages |->
        IF user_type # Null /\ user_type # db_type
        THEN <<"admin_fixed_type">> ELSE <<>>,
     review_reason |-> NoReason,
     next |-> "probs_only"]

\* recommend.py 330-342: the record read has is_auto_typed = 0
CaseB(db_type, user_type, raw, oracle_type) ==
    [is_auto_typed_in_db |-> FALSE,
     db_determined_b_type |-> db_type,
     final_determined_b_type_for_db |-> db_type,
     actual_recommend_type |-> IF user_type # Null THEN user_type ELSE db_type,
     additional_messages |->
        IF user_type # Null /\ user_type # db_type
        THEN <<"admin_fixed_type">> ELSE <<>>,
     review_reason |-> NoReason,
     next |-> IF raw.isdict THEN "probs_only" ELSE "record"]

\* a plausible slip: the elif of recommend.py 351-353 is missing, so a user
\* type equal to the type of a failed oracle call asks for no review
CaseA_no_failed_branch(db_type, user_type, raw, oracle_type) ==
    LET reason ==
            IF user_type # Null
            THEN IF user_type # oracle_type
                 THEN MismatchReason(user_type, oracle_type)
                 ELSE NoReason
            ELSE IF ~Truthy(raw)
                 THEN Reason("oracle_ambiguous_or_failed_no_user_type")
                 ELSE IF oracle_type = "others"
                      THEN Reason("oracle_ambiguous_result")
                      ELSE NoReason
        messages ==
            IF user_type # Null
            THEN <<"you_set_type">> \o
                 (IF user_type # oracle_type
                  THEN <<"oracle_differs_recorded">>
                  ELSE <<>>)
            ELSE IF ~Truthy(raw)
                 THEN <<"oracle_failed_provisionally_others">>
                 ELSE <<>>
    IN  [is_auto_typed_in_db |-> TRUE,
         db_determined_b_type |-> db_type,
         final_determined_b_type_for_db |->
            IF user_type # Null THEN user_type ELSE oracle_type,
         actual_recommend_type |->
            IF user_type # Null THEN user_type ELSE oracle_type,
         additional_messages |-> messages,
         review_reason |-> reason,
         next |-> IF reason # NoReason THEN "review" ELSE "store"]

\* a plausible slip: the type the oracle decided goes to the catalog, the
\* user type only when the oracle decided none
CaseA_oracle_first(db_type, user_type, raw, oracle_type) ==
    LET reason ==
            IF user_type # Null
            THEN IF user_type # oracle_type
                 THEN MismatchReason(user_type, oracle_type)
                 ELSE IF ~Truthy(raw)
                      THEN Reason("oracle_failed_user_specified_type")
                      ELSE NoReason
            ELSE IF ~Truthy(raw)
                 THEN Reason("oracle_ambiguous_or_failed_no_user_type")
                 ELSE IF oracle_type = "others"
                      THEN Reason("oracle_ambiguous_result")
                      ELSE NoReason
        messages ==
            IF user_type # Null
            THEN <<"you_set_type">> \o
                 (IF user_type # oracle_type
                  THEN <<"oracle_differs_recorded">>
                  ELSE IF ~Truthy(raw) THEN <<"oracle_failed">> ELSE <<>>)
            ELSE IF ~Truthy(raw)
                 THEN <<"oracle_failed_provisionally_others">>
                 ELSE <<>>
    IN  [is_auto_typed_in_db |-> TRUE,
         db_determined_b_type |-> db_type,
         final_determined_b_type_for_db |->
            IF user_type # Null /\ oracle_type = "others" THEN user_type
            ELSE oracle_type,
         actual_recommend_type |->
            IF user_type # Null THEN user_type ELSE oracle_type,
         additional_messages |-> messages,
         review_reason |-> reason,
         next |-> IF reason # NoReason THEN "review" ELSE "store"]

\* a plausible slip: an invocation whose oracle call failed goes back to
\* the fetches until the oracle answers
CaseA_retry_oracle(db_type, user_type, raw, oracle_type) ==
    LET reason ==
            IF user_type # Null
            THEN IF user_type # oracle_type
                 THEN MismatchReason(user_type, oracle_type)
                 ELSE IF ~Truthy(raw)
                      THEN Reason("oracle_failed_user_specified_type")
                      ELSE NoReason
            ELSE IF ~Truthy(raw)
                 THEN Reason("oracle_ambiguous_or_failed_no_user_type")
                 ELSE IF oracle_type = "others"
                      THEN Reason("oracle_ambiguous_result")
                      ELSE NoReason
        messages ==
            IF user_type # Null
            THEN <<"you_set_type">> \o
                 (IF user_type # oracle_type
                  THEN <<"oracle_differs_recorded">>
                  ELSE IF ~Truthy(raw) THEN <<"oracle_failed">> ELSE <<>>)
            ELSE IF ~Truthy(raw)
                 THEN <<"oracle_failed_provisionally_others">>
                 ELSE <<>>
    IN  [is_auto_typed_in_db |-> TRUE,
         db_determined_b_type |-> db_type,
         final_determined_b_type_for_db |->
            IF user_type # Null THEN user_type ELSE oracle_type,
         actual_recommend_type |->
            IF user_type # Null THEN user_type ELSE oracle_type,
         additional_messages |-> messages,
         review_reason |-> reason,
         next |-> IF ~raw.isdict THEN "gather"
                  ELSE IF reason # NoReason THEN "review" ELSE "store"]

\* recommend.py 343-362: no record was read, or it has is_auto_typed = 1
CaseA(db_type, user_type, raw, oracle_type) ==
    LET reason ==
            IF user_type # Null
            THEN IF user_type # oracle_type
                 THEN MismatchReason(user_type, oracle_type)
                 ELSE IF ~Truthy(raw)
                      THEN Reason("oracle_failed_user_specified_type")
                      ELSE NoReason
            ELSE IF ~Truthy(raw)
                 THEN Reason("oracle_ambiguous_or_failed_no_user_type")
                 ELSE IF oracle_type = "others"
                      THEN Reason("oracle_ambiguous_result")
                      ELSE NoReason
        messages ==
            IF user_type # Null
            THEN <<"you_set_type">> \o
                 (IF user_type # oracle_type
                  THEN <<"oracle_differs_recorded">>
                  ELSE IF ~Truthy(raw) THEN <<"oracle_failed">> ELSE <<>>)
            ELSE IF ~Truthy(raw)
                 THEN <<"oracle_failed_provisionally_others">>
                 ELSE <<>>
    IN  [is_auto_typed_in_db |-> TRUE,
         db_determined_b_type |-> db_type,
         final_determined_b_type_for_db |->
            IF user_type # Null THEN user_type ELSE oracle_type,
         actual_recommend_type |->
            IF user_type # Null THEN user_type ELSE oracle_type,
         additional_messages |-> messages,
         review_reason |-> reason,
         next |-> IF reason # NoReason THEN "review" ELSE "store"]

\* recommend.py 327-362: the branch taken on what the SELECT returned
\* (found = FALSE: no row, or no connection)
Resolve(found, row, user_type, raw, oracle_type) ==
    IF found /\ ~row.is_auto_typed
    THEN CaseB(row.determined_b_type, user_type, raw, oracle_type)
    ELSE CaseA(IF found THEN row.determined_b_type ELSE Null,
               user_type, raw, oracle_type)

RecIdle ==
    [pc |-> "idle", qqid |-> 0, arg_parts |-> <<>>, bid_from_arg |-> NullNum,
     description_from_arg |-> Null,
     bid |-> 0, user_specified_type |-> Null,
     official_beatmap_data |-> FALSE,
     raw_oracle_probabilities |-> OracleNone, oracle_determined_type |-> Null,
     is_auto_typed_in_db |-> TRUE, db_determined_b_type |-> Null,
     final_determined_b_type_for_db |-> Null, actual_recommend_type |-> Null,
     additional_messages |-> <<>>, review_reason |-> NoReason,
     writes |-> {}, found_manual |-> FALSE, reply |-> Null]

\* the placeholder description of recommend.py 264
DefaultDescription == "TA did not write a description"

\* rows an open override transaction has locked until it commits
AnalysisLocked(bid) ==
    \E a \in AdmProcs : adm[a].bid = bid /\ adm[a].pc \in {"tx_delete", "tx_commit"}
PendingLocked(bid) ==
    \E a \in AdmProcs : adm[a].bid = bid /\ adm[a].pc = "tx_commit"

\* recommend.py 29-42: SELECT ... FROM UserBindings WHERE qqid = %s and
\* fetchone(): the osu_uid of the first row of the user, NullNum for None
\* (no row; no connection or a MySQLError give None too)
get_user_binding_info(table, qqid) ==
    LET I == {i \in 1..Len(table) : table[i].qqid = qqid}
    IN  IF I = {} THEN NullNum
        ELSE table[CHOOSE i \in I : \A j \in I : i <= j].osu_uid

\* a plausible slip: the handler goes on without the binding check
RecStart_no_binding_check(p, q, b, user_type) ==
    /\ rec[p].pc \in {"idle", "done"}
    /\ invocations < MaxInvocations
    /\ invocations' = invocations + 1
    /\ rec' = [rec EXCEPT ![p] =
                 [RecIdle EXCEPT !.pc = "gather", !.qqid = q, !.bid = b,
                                 !.bid_from_arg = b,
                                 !.user_specified_type = user_type,
                                 !.description_from_arg = DefaultDescription]]
    /\ UNCHANGED <<analysis, pending, recommendations, adm, clock,
                   lastOverride, tokenVars, bindVars>>

\* recommend.py 271-295: the command arrives with its parsed arguments,
\* and the binding check of recommend.py 277-282 finds the user's row
RecStart(p, q, b, user_type) ==
    /\ rec[p].pc \in {"idle", "done"}
    /\ get_user_binding_info(UserBindings, q) # NullNum
    /\ invocations < MaxInvocations
    /\ invocations' = invocations + 1
    /\ rec' = [rec EXCEPT ![p] =
                 [RecIdle EXCEPT !.pc = "gather", !.qqid = q, !.bid = b,
                                 !.bid_from_arg = b,
                                 !.user_specified_type = user_type,
                                 !.description_from_arg = DefaultDescription]]
    /\ UNCHANGED <<analysis, pending, recommendations, adm, clock,
                   lastOverride, tokenVars, bindVars>>

\* recommend.py 277-282: the binding check finds nothing (no row of the
\* user, or conn_ok false: no connection or a MySQLError), the handler
\* sends the instruction to bind and returns
RecNoBinding(p, q, conn_ok) ==
    /\ rec[p].pc \in {"idle", "done"}
    /\ invocations < MaxInvocations
    /\ LET binding_info ==
               IF conn_ok THEN get_user_binding_info(UserBindings, q)
               ELSE NullNum
       IN  binding_info = NullNum
    /\ invocations' = invocations + 1
    /\ rec' = [rec EXCEPT ![p] =
                 [RecIdle EXCEPT !.pc = "done", !.qqid = q,
                                 !.reply = "bind_first"]]
    /\ UNCHANGED <<analysis, pending, recommendations, adm, clock,
                   lastOverride, tokenVars, bindVars>>

\* a plausible slip: the test of official_beatmap_data is left out, and the
\* command goes on to its store writes without metadata
RecGather_no_check(p, metadata_ok, raw) ==
    /\ rec[p].pc = "gather"
    /\ LET res == get_oracle_analysis_results(raw)
       IN  rec' = [rec EXCEPT ![p] =
                     [@ EXCEPT !.pc = "read",
                               !.official_beatmap_data = metadata_ok,
                               !.raw_oracle_probabilities = res[1],
                               !.oracle_determined_type = res[2]]]
    /\ UNCHANGED <<analysis, pending, recommendations, adm, clock,
                   invocations, lastOverride, tokenVars, bindVars>>

\* recommend.py 297-312: asyncio.gather of the metadata fetch and the
\* oracle call; no metadata ends the command.  An exception raised in
\* get_oracle_analysis_results leaves the gather and ends the handler, and
\* so does one raised while the probabilities are put into text; the
\* metadata fetch here finds its token and its answer without touching
\* the token cache, whose steps are the Api actions
RecGather(p, metadata_ok, raw) ==
    /\ rec[p].pc = "gather"
    /\ LET res == get_oracle_analysis_results(raw)
           official_beatmap_data == metadata_ok
       IN  rec' = [rec EXCEPT ![p] =
                     IF NormalizeRaises(raw)
                     THEN [RecIdle EXCEPT !.pc = "done",
                                          !.reply = "raised_in_normalizer"]
                     ELSE IF ~official_beatmap_data
                     THEN [RecIdle EXCEPT !.pc = "done",
                                          !.reply = "metadata_unavailable"]
                     ELSE IF DisplayRaises(res[1])
                     THEN [RecIdle EXCEPT !.pc = "done",
                                          !.reply = "raised_in_display"]
                     ELSE [@ EXCEPT !.pc = "read",
                                    !.official_beatmap_data = official_beatmap_data,
                                    !.raw_oracle_probabilities = res[1],
                                    !.oracle_determined_type = res[2]]]
    /\ UNCHANGED <<analysis, pending, recommendations, adm, clock,
                   invocations, lastOverride, tokenVars, bindVars>>

\* recommend.py 319-362: SELECT determined_b_type, is_auto_typed, then the
\* branch; without a connection the record counts as absent
RecRead(p, conn_ok) ==
    /\ rec[p].pc = "read"
    /\ LET found == conn_ok /\ HasRow(analysis, rec[p].bid)
           row == IF found THEN RowOf(analysis, rec[p].bid)
                  ELSE AnalysisValues(rec[p].bid, OracleNone, Null, TRUE, NullNum)
           d == Resolve(found, row, rec[p].user_specified_type,
                        rec[p].raw_oracle_probabilities,
                        rec[p].oracle_determined_type)
       IN  rec' = [rec EXCEPT ![p] =
                     [@ EXCEPT !.pc = d.next,
                               !.is_auto_typed_in_db = d.is_auto_typed_in_db,
                               !.db_determined_b_type = d.db_determined_b_type,
                               !.final_determined_b_type_for_db =
                                   d.final_determined_b_type_for_db,
                               !.actual_recommend_type = d.actual_recommend_type,
                               !.additional_messages = d.additional_messages,
                               !.review_reason = d.review_reason]]
    /\ UNCHANGED <<analysis, pending, recommendations, adm, clock,
                   invocations, lastOverride, tokenVars, bindVars>>

\* recommend.py 322-324: the SELECT raises; nothing catches it
RecReadError(p) ==
    /\ rec[p].pc = "read"
    /\ rec' = [rec EXCEPT ![p] = [RecIdle EXCEPT !.pc = "done", !.reply = "error"]]
    /\ UNCHANGED <<analysis, pending, recommendations, adm, clock,
                   invocations, lastOverride, tokenVars, bindVars>>

\* recommend.py 350, 352, 359, 361: await add_to_pending_review(...);
\* a store failure is logged and swallowed
RecReview(p, ok) ==
    /\ rec[p].pc = "review"
    /\ ok => ~PendingLocked(rec[p].bid)
    /\ pending' = IF ok
                  THEN add_to_pending_review(pending, rec[p].bid,
                                             rec[p].review_reason, NullNum, clock)
                  ELSE pending
    /\ rec' = [rec EXCEPT ![p] =
                 [@ EXCEPT !.pc = "store",
                           !.writes = IF ok THEN @ \cup {"review"} ELSE @]]
    /\ UNCHANGED <<analysis, recommendations, adm, clock, invocations,
                   lastOverride, tokenVars, bindVars>>

\* a plausible slip: a resolution that asks for no review also takes the
\* beatmap off the queue
RecStoreAnalysis_dequeue(p, ok) ==
    /\ rec[p].pc = "store"
    /\ ok => ~AnalysisLocked(rec[p].bid)
    /\ analysis' = IF ok
                   THEN store_beatmap_analysis(analysis, rec[p].bid,
                            rec[p].raw_oracle_probabilities,
                            rec[p].final_determined_b_type_for_db, TRUE, clock)
                   ELSE analysis
    /\ pending' = IF ok /\ rec[p].review_reason = NoReason
                  THEN {r \in pending : r.bid # rec[p].bid}
                  ELSE pending
    /\ rec' = [rec EXCEPT ![p] =
                 [@ EXCEPT !.pc = "record",
                           !.writes = IF ok THEN @ \cup {"analysis"} ELSE @,
                           !.found_manual =
                               /\ ok
                               /\ HasRow(analysis, rec[p].bid)
                               /\ ~RowOf(analysis, rec[p].bid).is_auto_typed]]
    /\ UNCHANGED <<recommendations, adm, clock, invocations, lastOverride,
                   tokenVars, bindVars>>

\* recommend.py 362: await store_beatmap_analysis(..., True)
RecStoreAnalysis(p, ok) ==
    /\ rec[p].pc = "store"
    /\ ok => ~AnalysisLocked(rec[p].bid)
    /\ analysis' = IF ok
                   THEN store_beatmap_analysis(analysis, rec[p].bid,
                            rec[p].raw_oracle_probabilities,
                            rec[p].final_determined_b_type_for_db, TRUE, clock)
                   ELSE analysis
    /\ rec' = [rec EXCEPT ![p] =
                 [@ EXCEPT !.pc = "record",
                           !.writes = IF ok THEN @ \cup {"analysis"} ELSE @,
                           !.found_manual =
                               /\ ok
                               /\ HasRow(analysis, rec[p].bid)
                               /\ ~RowOf(analysis, rec[p].bid).is_auto_typed]]
    /\ UNCHANGED <<pending, recommendations, adm, clock, invocations,
                   lastOverride, tokenVars, bindVars>>

\* recommend.py 341-342: await store_beatmap_analysis_probabilities_only(...)
RecProbsOnly(p, ok) ==
    /\ rec[p].pc = "probs_only"
    /\ ok => ~AnalysisLocked(rec[p].bid)
    /\ analysis' = IF ok
                   THEN store_beatmap_analysis_probabilities_only(analysis,
                            rec[p].bid, rec[p].raw_oracle_probabilities, clock)
                   ELSE analysis
    /\ rec' = [rec EXCEPT ![p] =
                 [@ EXCEPT !.pc = "record",
                           !.writes = IF ok THEN @ \cup {"probs"} ELSE @]]
    /\ UNCHANGED <<pending, recommendations, adm, clock, invocations,
                   lastOverride, tokenVars, bindVars>>

\* recommend.py 364-426: store_recommendation, then the reply
RecRecord(p, ok) ==
    /\ rec[p].pc = "record"
    /\ recommendations' =
          IF ok
          THEN store_recommendation(recommendations, rec[p].qqid, rec[p].bid,
                                    rec[p].user_specified_type,
                                    rec[p].actual_recommend_type,
                                    rec[p].description_from_arg)
          ELSE recommendations
    /\ rec' = [rec EXCEPT ![p] =
                 [RecIdle EXCEPT !.pc = "done",
                                 !.reply = IF ok THEN "recorded" ELSE "store_failed"]]
    /\ UNCHANGED <<analysis, pending, adm, clock, invocations, lastOverride,
                   tokenVars, bindVars>>

----------------------------------------------------------------------------
(* handle_pending_command [bid] [new type], admin_tool.py 81-139, and      *)
(* update_beatmap_classification, admin_tool.py 46-76                      *)

\* a reply keeps what its text shows: the rejected type (115), the bid
\* that was not found (118), the rows listed (102-105); count_arg is the
\* number typed after "list"
AdmIdle ==
    [pc |-> "idle", bid |-> 0, raw_new_type |-> Null, new_type |-> Null,
     count_arg |-> NullNum, pending_maps |-> <<>>, reply |-> Null]

\* a plausible slip: TYPE_ALIASES.get(raw_new_type.lower(), "others")
ParseNewType_default_others(raw_new_type) ==
    IF Lower(raw_new_type) \in AliasKeys THEN TYPE_ALIASES[Lower(raw_new_type)]
    ELSE "others"

\* admin_tool.py 113: TYPE_ALIASES.get(raw_new_type.lower())
ParseNewType(raw_new_type) ==
    IF Lower(raw_new_type) \in AliasKeys THEN TYPE_ALIASES[Lower(raw_new_type)]
    ELSE Null

\* admin_tool.py 107-115: the command arrives; an unknown type ends it
AdmStart(a, b, raw_new_type) ==
    /\ adm[a].pc \in {"idle", "done"}
    /\ LET new_type == ParseNewType(raw_new_type)
       IN  adm' = [adm EXCEPT ![a] =
                     IF new_type = Null \/ new_type \notin VALID_TYPES
                     THEN [AdmIdle EXCEPT !.pc = "done", !.reply = "InvalidType",
                                          !.raw_new_type = raw_new_type]
                     ELSE [AdmIdle EXCEPT !.pc = "check", !.bid = b,
                                          !.raw_new_type = raw_new_type,
                                          !.new_type = new_type]]
    /\ UNCHANGED <<analysis, pending, recommendations, rec, clock,
                   invocations, lastOverride, tokenVars, bindVars>>

\* admin_tool.py 117-118: get_beatmap_analysis_info; no row (or no
\* connection) ends the command
AdmCheck(a, conn_ok) ==
    /\ adm[a].pc = "check"
    /\ adm' = [adm EXCEPT ![a] =
                 IF conn_ok /\ HasRow(analysis, adm[a].bid)
                 THEN [@ EXCEPT !.pc = "tx_select"]
                 ELSE [AdmIdle EXCEPT !.pc = "done", !.reply = "NotFound",
                                      !.bid = adm[a].bid]]
    /\ UNCHANGED <<analysis, pending, recommendations, rec, clock,
                   invocations, lastOverride, tokenVars, bindVars>>

\* admin_tool.py 48-56: connect, SELECT bid; no row returns False
AdmTxSelect(a, ok) ==
    /\ adm[a].pc = "tx_select"
    /\ adm' = [adm EXCEPT ![a] =
                 IF ok /\ HasRow(analysis, adm[a].bid)
                 THEN [@ EXCEPT !.pc = "tx_update"]
                 ELSE [AdmIdle EXCEPT !.pc = "done", !.reply = "failed"]]
    /\ UNCHANGED <<analysis, pending, recommendations, rec, clock,
                   invocations, lastOverride, tokenVars, bindVars>>

\* a plausible slip: a connection opened with autocommit, so that each
\* statement takes effect in the store when it is executed
StatementEffect_autocommit(table, after) == after

\* what a statement executed inside the open transaction changes in the
\* committed table: nothing before conn.commit()
StatementEffect(table, after) == table

\* admin_tool.py 59-63: the UPDATE, inside the transaction; an error
\* rolls back (71-74)
AdmTxUpdate(a, ok) ==
    /\ adm[a].pc = "tx_update"
    /\ ok => ~AnalysisLocked(adm[a].bid)
    /\ analysis' = IF ok
                   THEN StatementEffect(analysis,
                            AdminUpdate(analysis, adm[a].bid, adm[a].new_type, a))
                   ELSE analysis
    /\ adm' = [adm EXCEPT ![a] =
                 IF ok THEN [@ EXCEPT !.pc = "tx_delete"]
                 ELSE [AdmIdle EXCEPT !.pc = "done", !.reply = "failed"]]
    /\ UNCHANGED <<pending, recommendations, rec, clock, invocations,
                   lastOverride, tokenVars, bindVars>>

\* admin_tool.py 66: the DELETE, inside the transaction
AdmTxDelete(a, ok) ==
    /\ adm[a].pc = "tx_delete"
    /\ ok => ~PendingLocked(adm[a].bid)
    /\ pending' = IF ok
                  THEN StatementEffect(pending, AdminDelete(pending, adm[a].bid))
                  ELSE pending
    /\ adm' = [adm EXCEPT ![a] =
                 IF ok THEN [@ EXCEPT !.pc = "tx_commit"]
                 ELSE [AdmIdle EXCEPT !.pc = "done", !.reply = "failed"]]
    /\ UNCHANGED <<analysis, recommendations, rec, clock, invocations,
                   lastOverride, tokenVars, bindVars>>

\* admin_tool.py 68-70: conn.commit() makes both statements take effect;
\* an error rolls both back
AdmTxCommit(a, ok) ==
    /\ adm[a].pc = "tx_commit"
    /\ analysis' = IF ok
                   THEN AdminUpdate(analysis, adm[a].bid, adm[a].new_type, a)
                   ELSE analysis
    /\ pending' = IF ok THEN AdminDelete(pending, adm[a].bid) ELSE pending
    /\ lastOverride' = IF ok
                       THEN [lastOverride EXCEPT ![adm[a].bid] = adm[a].new_type]
                       ELSE lastOverride
    /\ adm' = [adm EXCEPT ![a] =
                 [AdmIdle EXCEPT !.pc = "done",
                                 !.reply = IF ok THEN "success" ELSE "failed"]]
    /\ UNCHANGED <<recommendations, rec, clock, invocations, tokenVars,
                   bindVars>>

----------------------------------------------------------------------------
(* handle_pending_command list [count], admin_tool.py 93-105, and          *)
(* get_pending_list_from_db, admin_tool.py 16-29                           *)

Min(a, b) == IF a < b THEN a ELSE b
Max(a, b) == IF a > b THEN a ELSE b

\* admin_tool.py 94-95: count_arg is the second word when it is all
\* digits, NullNum when it is missing or anything else
ListCount(count_arg) ==
    LET count == IF count_arg # NullNum THEN count_arg ELSE 5
    IN  Max(1, Min(count, 20))

\* a plausible slip: ORDER BY added_to_queue_at without DESC
RECURSIVE OrderByDesc_asc(_)
OrderByDesc_asc(rows) ==
    IF rows = {} THEN {<<>>}
    ELSE UNION {{<<r>> \o s : s \in OrderByDesc_asc(rows \ {r})} :
                  r \in {x \in rows :
                            \A y \in rows :
                                y.added_to_queue_at >= x.added_to_queue_at}}

\* admin_tool.py 22: ORDER BY added_to_queue_at DESC; rows of equal time
\* come in whatever order the server picks
RECURSIVE OrderByDesc(_)
OrderByDesc(rows) ==
    IF rows = {} THEN {<<>>}
    ELSE UNION {{<<r>> \o s : s \in OrderByDesc(rows \ {r})} :
                  r \in {x \in rows :
                            \A y \in rows :
                                y.added_to_queue_at <= x.added_to_queue_at}}

\* admin_tool.py 16-29: the results the SELECT bid, reason_for_pending,
\* added_to_queue_at ... LIMIT count may return
get_pending_list_from_db(table, count) ==
    LET selected == {[bid |-> r.bid, reason_for_pending |-> r.reason_for_pending,
                      added_to_queue_at |-> r.added_to_queue_at] : r \in table}
    IN  {SubSeq(s, 1, Min(count, Len(s))) : s \in OrderByDesc(selected)}

\* admin_tool.py 93-105: the list command; without a connection, or on an
\* error of the SELECT, get_pending_list_from_db returns []
AdmList(a, count_arg, conn_ok) ==
    /\ adm[a].pc \in {"idle", "done"}
    /\ LET count == ListCount(count_arg)
       IN  \E pending_maps \in (IF conn_ok
                                THEN get_pending_list_from_db(pending, count)
                                ELSE {<<>>}) :
              adm' = [adm EXCEPT ![a] =
                        [AdmIdle EXCEPT !.pc = "done",
                                        !.count_arg = count_arg,
                                        !.pending_maps = pending_maps,
                                        !.reply = IF pending_maps = <<>>
                                                  THEN "empty" ELSE "list"]]
    /\ UNCHANGED <<analysis, pending, recommendations, rec, clock,
                   invocations, lastOverride, tokenVars, bindVars>>

----------------------------------------------------------------------------
(* The osu! API token: OSU_TOKEN_CACHE and get_osu_token, utils.py 13-18  *)
(* and 67-122, and its three callers: get_official_beatmap_info            *)
(* (utils.py 125-158), get_user_recent_beatmap_id (recommend.py 44-62),    *)
(* get_osu_user_info_by_username (bind.py 12-38).                          *)
(* A token is the number of its issue; the client id and secret are        *)
(* configured.  clock is time.time(), in seconds.                          *)

OSU_TOKEN_REFRESH_BEFORE_EXPIRY_SECONDS == 300

\* tokens the osu! server issues in one run
MaxTokens == 2
\* ticks of the clock in one run
MaxTicks == 3
\* the grain of the clock, in seconds
TickSeconds == 150

ApiProcs == {"c1", "c2"}
ApiKinds == {"beatmap", "recent", "user"}
\* expires_in of a token response, in seconds; NullNum is a value that is
\* no number (JSON null, a string)
ExpiresIn == {150, 450, 600, NullNum}
\* HTTP status of an API response; 0 is a transport error or a timeout
ApiStatus == {200, 401, 404, 0}

\* utils.py 13-16
TokenCacheEmpty == [access_token |-> NullNum, expires_at |-> 0]

ApiIdle == [pc |-> "idle", kind |-> Null, token |-> NullNum, status |-> NullNum]

\* a plausible slip: the margin is left out of the comparison
CachedTokenUsable_no_margin(cache, current_time) ==
    /\ cache.access_token # NullNum
    /\ cache.expires_at > current_time

\* utils.py 84-85: the test that lets get_osu_token return the cached token
CachedTokenUsable(cache, current_time) ==
    /\ cache.access_token # NullNum
    /\ cache.expires_at > current_time + OSU_TOKEN_REFRESH_BEFORE_EXPIRY_SECONDS

\* a caller awaits get_osu_token(), utils.py 81-101: the cached token is
\* returned at once; otherwise the POST to the token URL is sent and awaited
ApiStart(c, kind) ==
    /\ api[c].pc \in {"idle", "done"}
    /\ LET current_time == clock
       IN  api' = [api EXCEPT ![c] =
                     IF CachedTokenUsable(OSU_TOKEN_CACHE, current_time)
                     THEN [ApiIdle EXCEPT !.pc = "call", !.kind = kind,
                                          !.token = OSU_TOKEN_CACHE.access_token]
                     ELSE [ApiIdle EXCEPT !.pc = "exchange", !.kind = kind]]
    /\ UNCHANGED <<analysis, pending, recommendations, rec, adm, clock,
                   invocations, lastOverride, OSU_TOKEN_CACHE, issued,
                   bindVars>>

\* utils.py 101-122: the token response arrives.  granted: it carries an
\* access_token, which is cached with its expiry and returned; otherwise
\* (HTTP error, timeout, no access_token) get_osu_token returns None and
\* the caller returns None.  The two fields are assigned one after the
\* other (utils.py 112-113): with an expires_in that is no number the
\* addition raises TypeError after access_token was assigned, the handler
\* of utils.py 119 catches it and get_osu_token returns None
TokenResponse(c, granted, expires_in) ==
    /\ api[c].pc = "exchange"
    /\ granted => issued < MaxTokens
    /\ IF granted
       THEN LET access_token == issued + 1
            IN  /\ issued' = issued + 1
                /\ IF expires_in # NullNum
                   THEN /\ OSU_TOKEN_CACHE' =
                              [access_token |-> access_token,
                               expires_at |-> clock + expires_in]
                        /\ api' = [api EXCEPT ![c] =
                                     [@ EXCEPT !.pc = "call",
                                               !.token = access_token]]
                   ELSE /\ OSU_TOKEN_CACHE' =
                              [OSU_TOKEN_CACHE EXCEPT
                                   !.access_token = access_token]
                        /\ api' = [api EXCEPT ![c] = [@ EXCEPT !.pc = "done"]]
       ELSE /\ api' = [api EXCEPT ![c] = [@ EXCEPT !.pc = "done"]]
            /\ UNCHANGED <<OSU_TOKEN_CACHE, issued>>
    /\ UNCHANGED <<analysis, pending, recommendations, rec, adm, clock,
                   invocations, lastOverride, bindVars>>

\* the API answers the caller's GET.  Only get_official_beatmap_info
\* tells 401 from the other errors (utils.py 149-153) and sets expires_at
\* to 0; the two other callers log the error and return None
\* (recommend.py 60-62, bind.py 36-38)
ApiResponse(c, status) ==
    /\ api[c].pc = "call"
    /\ api' = [api EXCEPT ![c] = [@ EXCEPT !.pc = "done", !.status = status]]
    /\ OSU_TOKEN_CACHE' =
          IF status = 401 /\ api[c].kind = "beatmap"
          THEN [OSU_TOKEN_CACHE EXCEPT !.expires_at = 0]
          ELSE OSU_TOKEN_CACHE
    /\ UNCHANGED <<analysis, pending, recommendations, rec, adm, clock,
                   invocations, lastOverride, issued, bindVars>>

\* time passes
Tick ==
    /\ clock < MaxTicks * TickSeconds
    /\ clock' = clock + TickSeconds
    /\ UNCHANGED <<analysis, pending, recommendations, rec, adm, invocations,
                   lastOverride, tokenVars, bindVars>>

----------------------------------------------------------------------------
(* handle_bind_command and handle_unbind_command, bind.py 119-185          *)
(* UserBindings is held as the list of its rows: the handlers are the only *)
(* code that keeps a user or an osu! account from having two rows.  The    *)
(* table QQUsers holds the nickname of a user and nothing reads it back    *)
(* but the message of step 3; it is left out.                              *)

\* rows of UserBindings in one run
MaxBindings == 3

BindProcs == {"b1", "b2"}
BindUsers == {10001, 10002}
\* the names a user may type; "" is the command without a name
OsuNames == {"alice", "bob", ""}
\* the osu! account of a name
OsuUid == [n \in {"alice", "bob"} |-> IF n = "alice" THEN 501 ELSE 502]

BndIdle ==
    [pc |-> "idle", qqid |-> 0, osu_username_to_bind |-> Null,
     osu_uid |-> NullNum, reply |-> Null]

\* bind.py 41-53: the first row of the user, NullNum for None
db_check_qq_binding(table, qqid) == get_user_binding_info(table, qqid)

\* bind.py 55-72: the qqid of the first row of the account, NullNum for None
db_check_osu_uid_binding(table, osu_uid) ==
    LET I == {i \in 1..Len(table) : table[i].osu_uid = osu_uid}
    IN  IF I = {} THEN NullNum
        ELSE table[CHOOSE i \in I : \A j \in I : i <= j].qqid

\* bind.py 74-98: INSERT INTO UserBindings (...) VALUES (...), committed
db_bind_user(table, qqid, osu_uid) ==
    Append(table, [qqid |-> qqid, osu_uid |-> osu_uid])

\* bind.py 100-114: DELETE FROM UserBindings WHERE qqid = %s, committed
db_unbind_user(table, qqid) ==
    SelectSeq(table, LAMBDA r : r.qqid # qqid)

\* bind.py 122-133: the command arrives; without a name the usage is sent;
\* step 1 ends the handler when the user has a row (conn_ok: the check got
\* its connection and its SELECT ran; otherwise it returns None)
BindStart(b, q, name, conn_ok) ==
    /\ bnd[b].pc \in {"idle", "done"}
    /\ LET existing_binding ==
               IF conn_ok THEN db_check_qq_binding(UserBindings, q)
               ELSE NullNum
       IN  bnd' = [bnd EXCEPT ![b] =
                     IF name = ""
                     THEN [BndIdle EXCEPT !.pc = "done", !.reply = "usage"]
                     ELSE IF existing_binding # NullNum
                     THEN [BndIdle EXCEPT !.pc = "done",
                                          !.reply = "already_bound"]
                     ELSE [BndIdle EXCEPT !.pc = "lookup", !.qqid = q,
                                          !.osu_username_to_bind = name]]
    /\ UNCHANGED <<analysis, pending, recommendations, rec, adm, clock,
                   invocations, lastOverride, tokenVars, UserBindings>>

\* bind.py 135-143, step 2: the answer of get_osu_user_info_by_username
\* arrives (found: the API knows the name and the call worked)
BindLookup(b, found) ==
    /\ bnd[b].pc = "lookup"
    /\ bnd' = [bnd EXCEPT ![b] =
                 IF found
                 THEN [@ EXCEPT !.pc = "check_osu",
                                !.osu_uid =
                                    OsuUid[bnd[b].osu_username_to_bind]]
                 ELSE [BndIdle EXCEPT !.pc = "done", !.reply = "not_found"]]
    /\ UNCHANGED <<analysis, pending, recommendations, rec, adm, clock,
                   invocations, lastOverride, tokenVars, UserBindings>>

\* bind.py 145-151, step 3: the handler ends when the account has a row
BindCheckOsu(b, conn_ok) ==
    /\ bnd[b].pc = "check_osu"
    /\ LET other_binding ==
               IF conn_ok
               THEN db_check_osu_uid_binding(UserBindings, bnd[b].osu_uid)
               ELSE NullNum
       IN  bnd' = [bnd EXCEPT ![b] =
                     IF other_binding # NullNum
                     THEN [BndIdle EXCEPT !.pc = "done", !.reply = "osu_taken"]
                     ELSE [@ EXCEPT !.pc = "insert"]]
    /\ UNCHANGED <<analysis, pending, recommendations, rec, adm, clock,
                   invocations, lastOverride, tokenVars, UserBindings>>

\* bind.py 153-163, step 4: db_bind_user commits its row (ok) or fails
BindInsert(b, ok) ==
    /\ bnd[b].pc = "insert"
    /\ ok => Len(UserBindings) < MaxBindings
    /\ UserBindings' =
          IF ok THEN db_bind_user(UserBindings, bnd[b].qqid, bnd[b].osu_uid)
          ELSE UserBindings
    /\ bnd' = [bnd EXCEPT ![b] =
                 [BndIdle EXCEPT !.pc = "done",
                                 !.reply = IF ok THEN "bound" ELSE "db_error"]]
    /\ UNCHANGED <<analysis, pending, recommendations, rec, adm, clock,
                   invocations, lastOverride, tokenVars>>

\* bind.py 168-175: /konunbind arrives; the handler ends when the check
\* finds no row of the user
UnbindStart(b, q, conn_ok) ==
    /\ bnd[b].pc \in {"idle", "done"}
    /\ LET existing_binding ==
               IF conn_ok THEN db_check_qq_binding(UserBindings, q)
               ELSE NullNum
       IN  bnd' = [bnd EXCEPT ![b] =
                     IF existing_binding = NullNum
                     THEN [BndIdle EXCEPT !.pc = "done", !.reply = "not_bound"]
                     ELSE [BndIdle EXCEPT !.pc = "delete", !.qqid = q]]
    /\ UNCHANGED <<analysis, pending, recommendations, rec, adm, clock,
                   invocations, lastOverride, tokenVars, UserBindings>>

\* bind.py 180-185: db_unbind_user; it reports success when its DELETE
\* removed a row
UnbindDelete(b, ok) ==
    /\ bnd[b].pc = "delete"
    /\ LET rows_affected ==
               Len(UserBindings) - Len(db_unbind_user(UserBindings, bnd[b].qqid))
       IN  /\ UserBindings' =
                 IF ok THEN db_unbind_user(UserBindings, bnd[b].qqid)
                 ELSE UserBindings
           /\ bnd' = [bnd EXCEPT ![b] =
                        [BndIdle EXCEPT
                            !.pc = "done",
                            !.reply = IF ok /\ rows_affected > 0
                                      THEN "unbound" ELSE "db_error"]]
    /\ UNCHANGED <<analysis, pending, recommendations, rec, adm, clock,
                   invocations, lastOverride, tokenVars>>

\* the bind and unbind handlers' steps, for given instances and inputs
BindStep(BP, QS, NS) ==
    \/ \E b \in BP, q \in QS, n \in NS, ok \in BOOLEAN : BindStart(b, q, n, ok)
    \/ \E b \in BP, found \in BOOLEAN : BindLookup(b, found)
    \/ \E b \in BP, ok \in BOOLEAN : BindCheckOsu(b, ok)
    \/ \E b \in BP, ok \in BOOLEAN : BindInsert(b, ok)
    \/ \E b \in BP, q \in QS, ok \in BOOLEAN : UnbindStart(b, q, ok)
    \/ \E b \in BP, ok \in BOOLEAN : UnbindDelete(b, ok)

----------------------------------------------------------------------------
(* The system *)

UserTypes == VALID_TYPES \cup {Null}

\* what the oracle service may answer for a beatmap
OracleResults ==
    {OracleNone,
     OracleDict(<<>>),
     OracleDict(<< <<"stream", 40>>, <<"jump", 30>> >>),
     OracleDict(<< <<"Stream", 30>>, <<"chuan", 20>> >>),
     OracleDict(<< <<"Aim", 30>>, <<"jump", 30>> >>)}

\* the type arguments an administrator may type
AdminTypeArgs == {"Jump", "Foo"}

\* The store outlives the bot: a run starts on what earlier commands left.
\* StoreEmpty: a fresh database.
\* StoreAuto: after one recommendation of beatmap 1 without a type whose
\*   oracle call failed (others, auto-typed, queued for review).
\* StoreManual: after one recommendation of beatmap 1 without a type that
\*   the oracle put at jump 0.8, and then the override "/pending 1 tech".
StoreEmpty ==
    [analysis |-> {}, pending |-> {}, recommendations |-> <<>>,
     lastOverride |-> [b \in Bids |-> Null]]

StoreAuto ==
    [analysis |-> store_beatmap_analysis({}, 1, OracleNone, "others", TRUE, 0),
     pending |-> add_to_pending_review({}, 1,
                     Reason("oracle_ambiguous_or_failed_no_user_type"), NullNum, 0),
     recommendations |->
         store_recommendation(<<>>, 10001, 1, Null, "others", DefaultDescription),
     lastOverride |-> [b \in Bids |-> Null]]

StoreManual ==
    [analysis |->
         AdminUpdate(store_beatmap_analysis({}, 1, OracleDict(<< <<"jump", 80>> >>),
                                            "jump", TRUE, 0),
                     1, "tech", "a1"),
     pending |-> {},
     recommendations |->
         store_recommendation(<<>>, 10001, 1, Null, "jump", DefaultDescription),
     lastOverride |-> [b \in Bids |-> IF b = 1 THEN "tech" ELSE Null]]

\* StoreAutoJump: after one recommendation of beatmap 1 without a type that
\*   the oracle put at jump 0.8 (jump, auto-typed, probabilities stored).
StoreAutoJump ==
    [analysis |->
         store_beatmap_analysis({}, 1, OracleDict(<< <<"jump", 80>> >>),
                                "jump", TRUE, 0),
     pending |-> {},
     recommendations |->
         store_recommendation(<<>>, 10001, 1, Null, "jump", DefaultDescription),
     lastOverride |-> [b \in Bids |-> Null]]

InitStores == {StoreEmpty, StoreAuto, StoreManual}

\* the bindings earlier commands left: the user of QQIds is bound
BindingsBound == <<[qqid |-> 10001, osu_uid |-> 501]>>

InitOn(stores, bindings) ==
    /\ \E s \in stores :
          /\ analysis = s.analysis
          /\ pending = s.pending
          /\ recommendations = s.recommendations
          /\ lastOverride = s.lastOverride
    /\ rec = [p \in RecProcs |-> RecIdle]
    /\ adm = [a \in AdmProcs |-> AdmIdle]
    /\ clock = 0
    /\ invocations = 0
    /\ OSU_TOKEN_CACHE = TokenCacheEmpty
    /\ api = [c \in ApiProcs |-> ApiIdle]
    /\ issued = 0
    /\ UserBindings \in bindings
    /\ bnd = [b \in BindProcs |-> BndIdle]

InitWith(stores) == InitOn(stores, {BindingsBound})

Init == InitWith(InitStores)

\* the handlers' steps, for given handler instances and inputs
Step(RP, AP, BS, UT, ORS, ATS) ==
    \/ \E p \in RP, q \in QQIds, b \in BS, t \in UT : RecStart(p, q, b, t)
    \/ \E p \in RP, m \in BOOLEAN, raw \in ORS : RecGather(p, m, raw)
    \/ \E p \in RP, ok \in BOOLEAN : RecRead(p, ok)
    \/ \E p \in RP : RecReadError(p)
    \/ \E p \in RP, ok \in BOOLEAN : RecReview(p, ok)
    \/ \E p \in RP, ok \in BOOLEAN : RecStoreAnalysis(p, ok)
    \/ \E p \in RP, ok \in BOOLEAN : RecProbsOnly(p, ok)
    \/ \E p \in RP, ok \in BOOLEAN : RecRecord(p, ok)
    \/ \E a \in AP, b \in BS, t \in ATS : AdmStart(a, b, t)
    \/ \E a \in AP, ok \in BOOLEAN : AdmCheck(a, ok)
    \/ \E a \in AP, ok \in BOOLEAN : AdmTxSelect(a, ok)
    \/ \E a \in AP, ok \in BOOLEAN : AdmTxUpdate(a, ok)
    \/ \E a \in AP, ok \in BOOLEAN : AdmTxDelete(a, ok)
    \/ \E a \in AP, ok \in BOOLEAN : AdmTxCommit(a, ok)

\* one recommending user and one administrator, every input
Next == Step({"r1"}, AdmProcs, {1}, UserTypes, OracleResults, AdminTypeArgs)

Spec == Init /\ [][Next]_vars

----------------------------------------------------------------------------
(* The recommend handler alone: one user, no administrator at work *)

\* what the oracle service may answer, with results that decide a type
OracleResultsSeq ==
    OracleResults \cup
    {OracleDict(<< <<"jump", 80>>, <<"stream", 20>> >>),
     OracleDict(<< <<"Tech", 51>> >>)}

\* the recommend handler's steps, for given handler instances and inputs
RecStep(RP, BS, UT, ORS) ==
    \/ \E p \in RP, q \in QQIds, b \in BS, t \in UT : RecStart(p, q, b, t)
    \/ \E p \in RP, m \in BOOLEAN, raw \in ORS : RecGather(p, m, raw)
    \/ \E p \in RP, ok \in BOOLEAN : RecRead(p, ok)
    \/ \E p \in RP : RecReadError(p)
    \/ \E p \in RP, ok \in BOOLEAN : RecReview(p, ok)
    \/ \E p \in RP, ok \in BOOLEAN : RecStoreAnalysis(p, ok)
    \/ \E p \in RP, ok \in BOOLEAN : RecProbsOnly(p, ok)
    \/ \E p \in RP, ok \in BOOLEAN : RecRecord(p, ok)

NextSeq == RecStep({"r1"}, {1}, UserTypes, OracleResultsSeq)

SpecSeq == Init /\ [][NextSeq]_vars

\* the same handler on the stores whose row of beatmap 1 holds
\* probabilities and a run time, auto-typed or set by an administrator
SpecAutoTyped ==
    InitWith({StoreAutoJump, StoreManual}) /\ [][NextSeq]_vars

----------------------------------------------------------------------------
(* The recommend handler under the scheduling of the event loop: each call *)
(* the handler awaits returns, fails or times out (httpx: 20 s, the oracle *)
(* POST 30 s; utils.py 64, 179), and the loop then resumes the handler      *)

\* the next step of invocation p, whatever its awaited call returned
RecContinue(p) ==
    \/ \E m \in BOOLEAN, raw \in OracleResultsSeq : RecGather(p, m, raw)
    \/ \E ok \in BOOLEAN : RecRead(p, ok)
    \/ RecReadError(p)
    \/ \E ok \in BOOLEAN : RecReview(p, ok)
    \/ \E ok \in BOOLEAN : RecStoreAnalysis(p, ok)
    \/ \E ok \in BOOLEAN : RecProbsOnly(p, ok)
    \/ \E ok \in BOOLEAN : RecRecord(p, ok)

SpecLive == Init /\ [][NextSeq]_vars /\ WF_vars(RecContinue("r1"))

----------------------------------------------------------------------------
(* get_oracle_analysis_results on every small answer of the oracle service *)

\* labels in one answer of the oracle service
MaxLabels == 3

OracleLabels == {"Stream", "chuan", "jump", "Foo", "others"}
\* NullNum: the JSON null, a value that is no number
OracleProbs == {20, 30, 50, 51, NullNum}

\* the dicts of n items: distinct keys, in every insertion order
DictsOfLen(n) ==
    {d \in [1..n -> OracleLabels \X OracleProbs] :
        \A i, j \in 1..n : i # j => d[i][1] # d[j][1]}

\* the service fails (None), or answers a dict of up to MaxLabels items
NextOracle ==
    \/ \E q \in QQIds : RecStart("r1", q, 1, Null)
    \/ RecGather("r1", TRUE, OracleNone)
    \/ /\ rec["r1"].pc = "gather"    \* RecGather's guard, ahead of the dicts
       /\ \E n \in 0..MaxLabels :
             \E d \in DictsOfLen(n) : RecGather("r1", TRUE, OracleDict(d))

SpecOracle == InitWith({StoreEmpty}) /\ [][NextOracle]_vars

----------------------------------------------------------------------------
(* The token cache and the callers of the osu! API *)

NextToken ==
    \/ \E c \in ApiProcs, kind \in ApiKinds : ApiStart(c, kind)
    \/ \E c \in ApiProcs, granted \in BOOLEAN, expires_in \in ExpiresIn :
          TokenResponse(c, granted, expires_in)
    \/ \E c \in ApiProcs, status \in ApiStatus : ApiResponse(c, status)
    \/ Tick

SpecToken == InitWith({StoreEmpty}) /\ [][NextToken]_vars

----------------------------------------------------------------------------
(* The list command on every small review queue *)

\* rows in the review queue
MaxQueue == 3

ListBids == 1..MaxQueue
ListTimes == {0, 150, 300}
\* the number typed after "list"; NullNum: none, or not all digits
ListArgs == {NullNum, 0, 1, 2, 25}

\* the queues that n calls of add_to_pending_review leave
RECURSIVE Enqueued(_)
Enqueued(n) ==
    IF n = 0 THEN {{}}
    ELSE Enqueued(n - 1) \cup
         {add_to_pending_review(q, b, Reason("oracle_ambiguous_result"), NullNum, t) :
             q \in Enqueued(n - 1), b \in ListBids, t \in ListTimes}

ListStores == {[StoreEmpty EXCEPT !.pending = q] : q \in Enqueued(MaxQueue)}

NextList ==
    \E a \in AdmProcs, count_arg \in ListArgs, conn_ok \in BOOLEAN :
        AdmList(a, count_arg, conn_ok)

SpecList == InitWith(ListStores) /\ [][NextList]_vars

----------------------------------------------------------------------------
(* Every command that works on the three tables: recommend, override, list *)

NextOps ==
    \/ Step({"r1"}, AdmProcs, {1}, {Null, "jump"},
            {OracleNone, OracleDict(<< <<"stream", 40>>, <<"jump", 30>> >>)},
            {"Jump"})
    \/ \E a \in AdmProcs, count_arg \in {NullNum, 0}, conn_ok \in BOOLEAN :
          AdmList(a, count_arg, conn_ok)

SpecOps == Init /\ [][NextOps]_vars

----------------------------------------------------------------------------
(* Properties *)

IsManual(b) == HasRow(analysis, b) /\ ~RowOf(analysis, b).is_auto_typed

\* the step is the commit of a successful override of beatmap b
OverrideCommits(b) ==
    \E a \in AdmProcs :
        /\ adm[a].pc = "tx_commit"
        /\ adm[a].bid = b
        /\ adm'[a].reply = "success"

\* C1 (manual lock): a row with is_auto_typed = 0 keeps its
\* determined_b_type and its is_auto_typed in every step that is not the
\* commit of an override of that beatmap; no step of a recommendation
\* changes them, whatever type the user gave and whatever the oracle said.
C1_ManualLock ==
    [][\A b \in Bids :
          (IsManual(b) /\ ~OverrideCommits(b)) =>
              /\ HasRow(analysis', b)
              /\ RowOf(analysis', b).determined_b_type =
                     RowOf(analysis, b).determined_b_type
              /\ RowOf(analysis', b).is_auto_typed =
                     RowOf(analysis, b).is_auto_typed]_vars

\* a recommendation that read the manual row, with a type that differs
\* from the stored one, has refreshed the probabilities of the row
C1_Witness ==
    \E p \in RecProcs :
        /\ rec[p].pc = "record"
        /\ ~rec[p].is_auto_typed_in_db
        /\ "probs" \in rec[p].writes
        /\ rec[p].user_specified_type \notin {Null, rec[p].db_determined_b_type}
        /\ IsManual(rec[p].bid)
        /\ RowOf(analysis, rec[p].bid).determined_b_type = rec[p].db_determined_b_type

\* C2 (override not clobbered): once an override of a beatmap committed,
\* the row has the type of the last committed override and
\* is_auto_typed = 0, in every state of every interleaving with
\* recommendations, so also once both have returned.
C2_OverrideNotClobbered ==
    \A b \in Bids :
        lastOverride[b] # Null =>
            /\ IsManual(b)
            /\ RowOf(analysis, b).determined_b_type = lastOverride[b]

\* a recommendation read the row as auto-typed, the override committed,
\* and then the recommendation's upsert ran on the overridden row
C2_Witness ==
    \E p \in RecProcs :
        /\ rec[p].pc = "record"
        /\ rec[p].is_auto_typed_in_db
        /\ rec[p].db_determined_b_type # Null
        /\ rec[p].found_manual
        /\ "analysis" \in rec[p].writes
        /\ rec[p].final_determined_b_type_for_db # lastOverride[rec[p].bid]
        /\ \A a \in AdmProcs : adm[a].pc = "done" /\ adm[a].reply = "success"

\* C3 as claimed (atomic check-and-set), for the invocations whose check
\* did read the row: no recommendation whose SELECT returned the row as
\* auto-typed enqueues a review while the row has is_auto_typed = 0.
\* (A violation leaves a manual row with a queue entry once all returned.)
C3_NoReviewForManual ==
    [][\A p \in RecProcs :
          (/\ rec[p].pc = "review"
           /\ rec[p].db_determined_b_type # Null
           /\ "review" \in rec'[p].writes) => ~IsManual(rec[p].bid)]_vars

\* C4 (override clears queue): the commit of a successful override of b to
\* new_type leaves no PendingBeatmapReviews row for b, and the row of b
\* with determined_b_type = new_type and is_auto_typed = 0.
C4_OverrideClearsQueue ==
    [][\A a \in AdmProcs :
          (adm[a].pc = "tx_commit" /\ adm'[a].reply = "success") =>
              /\ RowsOf(pending', adm[a].bid) = {}
              /\ HasRow(analysis', adm[a].bid)
              /\ RowOf(analysis', adm[a].bid).determined_b_type = adm[a].new_type
              /\ ~RowOf(analysis', adm[a].bid).is_auto_typed]_vars

\* the run started on StoreAuto (a live queue entry, an auto-typed row of
\* type others), no recommendation arrived, and the override succeeded
C4_Witness ==
    /\ invocations = 0
    /\ recommendations = StoreAuto.recommendations
    /\ \E a \in AdmProcs : adm[a].pc = "done" /\ adm[a].reply = "success"
    /\ pending = {}
    /\ IsManual(1)
    /\ RowOf(analysis, 1).determined_b_type = "jump"

\* C5 (override is one atomic unit): every step of an override either
\* leaves BeatmapAnalysis and PendingBeatmapReviews as they are (a statement
\* inside the transaction, a failure, a rollback) or makes both effects
\* visible at once: the row has new_type and is_auto_typed = 0, and the
\* queue holds no row for the bid.
C5_OverrideAtomic ==
    [][\A a \in AdmProcs :
          adm'[a] # adm[a] =>
              \/ analysis' = analysis /\ pending' = pending
              \/ /\ HasRow(analysis', adm[a].bid)
                 /\ RowOf(analysis', adm[a].bid).determined_b_type = adm[a].new_type
                 /\ ~RowOf(analysis', adm[a].bid).is_auto_typed
                 /\ RowsOf(pending', adm[a].bid) = {}]_vars

\* between the two statements of the transaction a reader still sees the
\* auto-typed row and the queue entry
C5_Witness ==
    \E a \in AdmProcs :
        /\ adm[a].pc = "tx_delete"
        /\ HasRow(analysis, adm[a].bid)
        /\ RowOf(analysis, adm[a].bid).is_auto_typed
        /\ HasRow(pending, adm[a].bid)

\* C6 (override failures): a type argument that is no alias is answered
\* InvalidType, a bid without a BeatmapAnalysis row is answered NotFound,
\* and a step that answers either leaves the three tables unchanged.
C6_OverrideFailures ==
    [][\A a \in AdmProcs :
          adm'[a] # adm[a] =>
              /\ (/\ adm[a].pc \in {"idle", "done"}
                  /\ Lower(adm'[a].raw_new_type) \notin AliasKeys)
                    => adm'[a].reply = "InvalidType"
              /\ (adm[a].pc = "check" /\ ~HasRow(analysis, adm[a].bid))
                    => adm'[a].reply = "NotFound"
              /\ adm'[a].reply \in {"InvalidType", "NotFound"}
                    => UNCHANGED <<analysis, pending, recommendations>>]_vars

\* an override of a beatmap that has no row was answered NotFound
C6_Witness ==
    \E a \in AdmProcs :
        /\ adm[a].pc = "done"
        /\ adm[a].reply = "NotFound"
        /\ ~HasRow(analysis, adm[a].bid)
        /\ pending = {}

\* C7 (review-queue upsert wins): the queue never holds two rows for one
\* bid, and after a committed add_to_pending_review the one row of the bid
\* carries the reason of that call.
C7_UpsertWins ==
    [][/\ \A b \in Bids : Cardinality(RowsOf(pending', b)) <= 1
       /\ \A p \in RecProcs :
             (rec[p].pc = "review" /\ "review" \in rec'[p].writes) =>
                 /\ Cardinality(RowsOf(pending', rec[p].bid)) = 1
                 /\ RowOf(pending', rec[p].bid).reason_for_pending =
                        rec[p].review_reason]_vars

\* the run started on StoreAuto, whose queue entry came from an earlier
\* resolution; no override ran; a second resolution qualified with another
\* reason and its reason is the one in the queue
C7_Witness ==
    \E p \in RecProcs :
        /\ rec[p].pc = "store"
        /\ "review" \in rec[p].writes
        /\ recommendations = StoreAuto.recommendations
        /\ \A a \in AdmProcs : adm[a] = AdmIdle
        /\ rec[p].review_reason # RowOf(StoreAuto.pending, 1).reason_for_pending
        /\ RowsOf(pending, 1) # {}
        /\ \A r \in RowsOf(pending, 1) : r.reason_for_pending = rec[p].review_reason

\* C8 (only the override dequeues): a PendingBeatmapReviews row of a bid
\* disappears only in the commit of a successful override of that bid; no
\* step of a recommendation removes it.
C8_OnlyOverrideDequeues ==
    [][\A b \in Bids :
          (HasRow(pending, b) /\ ~HasRow(pending', b)) => OverrideCommits(b)]_vars

\* a recommendation that resolved without asking for a review has written
\* its analysis, and the earlier queue entry of the bid is still there
C8_Witness ==
    \E p \in RecProcs :
        /\ rec[p].pc = "record"
        /\ rec[p].is_auto_typed_in_db
        /\ rec[p].review_reason = NoReason
        /\ "analysis" \in rec[p].writes
        /\ HasRow(pending, rec[p].bid)

\* C9 as claimed: in Case A with a user type and a failed oracle call, the
\* reason handed to add_to_pending_review is
\* oracle_failed_user_specified_type, for every user type.
C9_ModelFailedReason ==
    \A p \in RecProcs :
        (/\ rec[p].pc \in {"review", "store", "record"}
         /\ rec[p].is_auto_typed_in_db
         /\ rec[p].user_specified_type # Null
         /\ ~rec[p].raw_oracle_probabilities.isdict)
            => rec[p].review_reason = Reason("oracle_failed_user_specified_type")

\* Case A, no user type, a non-empty oracle result in which no canonical
\* type sums to more than 0.5
AmbiguousNoUserType(p) ==
    /\ rec[p].pc \in {"review", "store", "record"}
    /\ rec[p].is_auto_typed_in_db
    /\ rec[p].user_specified_type = Null
    /\ Truthy(rec[p].raw_oracle_probabilities)
    /\ LET n == Normalize(rec[p].raw_oracle_probabilities.items, <<>>)
       IN  \A i \in 1..Len(n) : n[i][2] <= Threshold

\* C10 (no user type, ambiguous oracle, Case A): the oracle type is others,
\* the reason is oracle_ambiguous_result, there is no advisory message, and
\* the committed add_to_pending_review leaves the queue row of the bid with
\* that reason.  (Stated on the steps of the invocation: each of them
\* changes its pc.)
C10_AmbiguousModel ==
    [][\A p \in RecProcs :
          rec'[p].pc # rec[p].pc =>
          /\ AmbiguousNoUserType(p)' =>
                /\ rec'[p].oracle_determined_type = "others"
                /\ rec'[p].review_reason = Reason("oracle_ambiguous_result")
                /\ rec'[p].additional_messages = <<>>
          /\ (/\ rec[p].pc = "review"
              /\ "review" \in rec'[p].writes
              /\ AmbiguousNoUserType(p)) =>
                \E r \in pending' :
                    /\ r.bid = rec[p].bid
                    /\ r.reason_for_pending = Reason("oracle_ambiguous_result")]_vars

\* such a resolution has enqueued its review
C10_Witness ==
    \E p \in RecProcs :
        /\ AmbiguousNoUserType(p)
        /\ rec[p].pc = "store"
        /\ "review" \in rec[p].writes
        /\ rec[p].additional_messages = <<>>
        /\ \E r \in pending :
              /\ r.bid = rec[p].bid
              /\ r.reason_for_pending = Reason("oracle_ambiguous_result")

\* the invocation has passed the branch of recommend.py 327-362 as Case A
\* (no record read, or one with is_auto_typed = 1)
ResolvedCaseA(p) ==
    /\ rec[p].pc \in {"review", "store", "record"}
    /\ rec[p].is_auto_typed_in_db

\* C11 as claimed: in Case A without a user type, the failure reason and the
\* failure advisory appear only when the oracle call failed; an oracle call
\* that returned an empty mapping gives the reason oracle_ambiguous_result
\* and no failure advisory.
C11_EmptyMappingIsAmbiguous ==
    \A p \in RecProcs :
        (ResolvedCaseA(p) /\ rec[p].user_specified_type = Null) =>
            /\ (\/ rec[p].review_reason =
                      Reason("oracle_ambiguous_or_failed_no_user_type")
                \/ rec[p].additional_messages # <<>>)
                  => ~rec[p].raw_oracle_probabilities.isdict
            /\ (/\ rec[p].raw_oracle_probabilities.isdict
                /\ rec[p].raw_oracle_probabilities.items = <<>>)
                  => rec[p].review_reason = Reason("oracle_ambiguous_result")

\* the oracle call of the invocation has returned
OracleReturned(p) == rec[p].pc \in {"read", "review", "store", "record", "probs_only"}

\* the normalized probabilities of the invocation's oracle answer
NormalizedOf(p) == Normalize(rec[p].raw_oracle_probabilities.items, <<>>)

\* C12 (threshold): the oracle type is a type other than others only if
\* the normalized probability of that type is strictly greater than 0.5;
\* when no normalized probability is above 0.5 (exactly 0.5 included, the
\* empty mapping included, a failed call included) the oracle type is others.
C12_StrictThreshold ==
    \A p \in RecProcs :
        OracleReturned(p) =>
            LET n == NormalizedOf(p)
                t == rec[p].oracle_determined_type
            IN  /\ t \in VALID_TYPES
                /\ t # "others" => DictGet(n, t) > Threshold
                /\ (\A i \in 1..Len(n) : n[i][2] <= Threshold) => t = "others"
                /\ ~Truthy(rec[p].raw_oracle_probabilities) => t = "others"

\* an answer whose stream probability is exactly 0.5 (directly, or as the
\* sum of two aliases) and in which nothing else is above 0.5: others
C12_Witness ==
    \E p \in RecProcs :
        /\ OracleReturned(p)
        /\ DictGet(NormalizedOf(p), "stream") = Threshold
        /\ Len(rec[p].raw_oracle_probabilities.items) >= 2
        /\ rec[p].oracle_determined_type = "others"

\* the labels of an answer that the alias table maps to type t, compared
\* in lower case, and the sum of their probabilities
AliasesOf(items, t) ==
    {i \in 1..Len(items) :
        /\ Lower(items[i][1]) \in AliasKeys
        /\ TYPE_ALIASES[Lower(items[i][1])] = t}

RECURSIVE SumProbs(_, _)
SumProbs(items, I) ==
    IF I = {} THEN 0
    ELSE LET i == CHOOSE x \in I : TRUE
         IN  items[i][2] + SumProbs(items, I \ {i})

\* C13 (alias summation): for every answer of the oracle service, the
\* normalized mapping has an entry for a canonical type exactly when some
\* label of the answer is an alias of it (in lower case), the entry is the
\* sum of the probabilities of all those labels, and there is no other
\* entry: a label outside the alias table adds to no type, others included.
C13_AliasSummation ==
    \A p \in RecProcs :
        (OracleReturned(p) /\ rec[p].raw_oracle_probabilities.isdict) =>
            LET items == rec[p].raw_oracle_probabilities.items
                n == NormalizedOf(p)
            IN  /\ \A i \in 1..Len(n) : n[i][1] \in VALID_TYPES
                /\ \A i, j \in 1..Len(n) : n[i][1] = n[j][1] => i = j
                /\ \A t \in VALID_TYPES :
                      IF AliasesOf(items, t) = {}
                      THEN \A i \in 1..Len(n) : n[i][1] # t
                      ELSE DictGet(n, t) = SumProbs(items, AliasesOf(items, t))

\* {"Stream": 0.3, "chuan": 0.2, "Foo": 0.51}: stream is 0.5, Foo is dropped
C13_Witness ==
    \E p \in RecProcs :
        /\ OracleReturned(p)
        /\ rec[p].raw_oracle_probabilities =
               OracleDict(<< <<"Stream", 30>>, <<"chuan", 20>>, <<"Foo", 51>> >>)
        /\ NormalizedOf(p) = << <<"stream", 50>> >>
        /\ rec[p].oracle_determined_type = "others"

\* C14 as claimed: for an invocation in Case A that asks for a review, the
\* PendingBeatmapReviews upsert and the BeatmapAnalysis upsert take effect
\* together: in no state has one of them committed and the other not.
C14_ReviewAndAnalysisTogether ==
    \A p \in RecProcs :
        (ResolvedCaseA(p) /\ rec[p].review_reason # NoReason) =>
            ("review" \in rec[p].writes <=> "analysis" \in rec[p].writes)

\* the store writes the invocation has called for so far have all committed
StoreWorked(p) ==
    /\ (rec[p].pc \in {"store", "record"} /\ rec[p].review_reason # NoReason)
          => "review" \in rec[p].writes
    /\ (rec[p].pc = "record" /\ rec[p].is_auto_typed_in_db)
          => "analysis" \in rec[p].writes
    /\ (/\ rec[p].pc = "record"
        /\ ~rec[p].is_auto_typed_in_db
        /\ rec[p].raw_oracle_probabilities.isdict)
          => "probs" \in rec[p].writes

\* C15 as claimed: an invocation one of whose store writes failed reports
\* the failure, and an invocation that reports a store failure has left
\* none of its writes in the store.
C15_FailureLeavesNothing ==
    [][\A p \in RecProcs :
          (rec[p].pc = "record" /\ rec'[p].pc = "done") =>
              /\ ~StoreWorked(p) => rec'[p].reply = "store_failed"
              /\ rec'[p].reply = "store_failed" => rec[p].writes = {}]_vars

C17_ModelFailureNeverAborts ==
    [][\A p \in RecProcs :
          (/\ rec[p].pc \in {"read", "review", "store", "probs_only", "record"}
           /\ ~rec[p].raw_oracle_probabilities.isdict) =>
              /\ ResolvedCaseA(p) => rec[p].review_reason # NoReason
              /\ (ResolvedCaseA(p) /\ "review" \in rec[p].writes)
                    => HasRow(pending, rec[p].bid)
              /\ rec'[p].pc = "done" =>
                    \/ rec[p].pc = "read" /\ rec'[p].reply = "error"
                    \/ /\ rec[p].pc = "record"
                       /\ rec'[p].reply \in {"recorded", "store_failed"}
                       /\ rec'[p].reply = "recorded" =>
                             /\ Len(recommendations') = Len(recommendations) + 1
                             /\ recommendations'[Len(recommendations')].bid =
                                    rec[p].bid
                             /\ (rec[p].is_auto_typed_in_db /\ StoreWorked(p))
                                    => HasRow(pending', rec[p].bid)]_vars

\* a fresh database, user type others, a failed oracle call: the command
\* went through with every write committed, and the queue and the log hold
\* its rows
C17_Witness ==
    /\ \E p \in RecProcs : rec[p].pc = "done" /\ rec[p].reply = "recorded"
    /\ invocations = 1
    /\ Len(recommendations) = 1
    /\ recommendations[1].user_requested_type = "others"
    /\ \E r \in analysis : r.bid = 1 /\ r.oracle_last_run_at = NullNum
    /\ \E r \in pending :
          /\ r.bid = 1
          /\ r.reason_for_pending = Reason("oracle_failed_user_specified_type")

\* the type Case A settles on: the user's if given, else the oracle's
CaseAType(p) ==
    IF rec[p].user_specified_type # Null THEN rec[p].user_specified_type
    ELSE rec[p].oracle_determined_type

\* C18 (Case A final types): when an invocation of Case A whose analysis
\* upsert committed, on a bid whose row was absent or auto-typed, returns
\* with its Recommendations row inserted, the BeatmapAnalysis row of the bid
\* has determined_b_type = the user type if one was given and the oracle
\* type otherwise, it has is_auto_typed = 1, and the inserted row has that
\* same type as actual_recommend_type.
C18_CaseAFinalTypes ==
    [][\A p \in RecProcs :
          (/\ rec[p].pc = "record"
           /\ rec[p].is_auto_typed_in_db
           /\ "analysis" \in rec[p].writes
           /\ ~rec[p].found_manual
           /\ rec'[p].reply = "recorded") =>
              /\ HasRow(analysis', rec[p].bid)
              /\ RowOf(analysis', rec[p].bid).determined_b_type = CaseAType(p)
              /\ RowOf(analysis', rec[p].bid).is_auto_typed
              /\ recommendations'[Len(recommendations')].bid = rec[p].bid
              /\ recommendations'[Len(recommendations')].actual_recommend_type =
                     CaseAType(p)]_vars

\* the run started on StoreAuto (row of type others); a command with user
\* type stream, which the oracle put at jump, has returned: the row and the
\* new log entry have stream
C18_Witness ==
    /\ \E p \in RecProcs : rec[p].pc = "done" /\ rec[p].reply = "recorded"
    /\ Len(recommendations) = 2
    /\ recommendations[1] = StoreAuto.recommendations[1]
    /\ recommendations[2].user_requested_type = "stream"
    /\ recommendations[2].actual_recommend_type = "stream"
    /\ \E r \in analysis :
          /\ r.bid = 1
          /\ r.determined_b_type = "stream"
          /\ r.is_auto_typed
          /\ r.jump_prob = 80

\* C19 as claimed: in Case A with a user type and an oracle call that
\* returned a mapping, the review is asked for, with the mismatch reason, if
\* and only if the user type differs from the oracle type; when they are
\* equal no review is asked for and none is written.
C19_MismatchIff ==
    \A p \in RecProcs :
        (/\ ResolvedCaseA(p)
         /\ rec[p].user_specified_type # Null
         /\ rec[p].raw_oracle_probabilities.isdict) =>
            IF rec[p].user_specified_type # rec[p].oracle_determined_type
            THEN rec[p].review_reason =
                     MismatchReason(rec[p].user_specified_type,
                                    rec[p].oracle_determined_type)
            ELSE /\ rec[p].review_reason = NoReason
                 /\ rec[p].pc # "review"
                 /\ "review" \notin rec[p].writes

\* C20 (Case B writes no review): every step of an invocation that read a
\* row with is_auto_typed = 0 leaves PendingBeatmapReviews as it is, and
\* such an invocation asks for no review, whatever the user type and
\* whatever the oracle call returned.
C20_CaseBNoReview ==
    [][\A p \in RecProcs :
          (rec'[p] # rec[p] /\
           (~rec[p].is_auto_typed_in_db \/ ~rec'[p].is_auto_typed_in_db)) =>
              /\ pending' = pending
              /\ rec'[p].pc # "review"
              /\ rec'[p].review_reason = NoReason
              /\ "review" \notin rec'[p].writes]_vars

\* an invocation read the manual row (tech), with user type stream and an
\* oracle answer that decides jump; it refreshed the probabilities, and the
\* queue is as empty as before
C20_Witness ==
    \E p \in RecProcs :
        /\ rec[p].pc = "record"
        /\ ~rec[p].is_auto_typed_in_db
        /\ rec[p].db_determined_b_type = "tech"
        /\ rec[p].user_specified_type = "stream"
        /\ rec[p].oracle_determined_type = "jump"
        /\ "probs" \in rec[p].writes
        /\ pending = {}

\* C21 (Case B, the recommendation's types): the row that an invocation
\* appends to Recommendations after it read a row with is_auto_typed = 0
\* has actual_recommend_type equal to the user's type if one was given and
\* to the stored determined_b_type otherwise, and its user_requested_type
\* is the user's type, or NULL.
C21_CaseBRecordedTypes ==
    [][\A p \in RecProcs :
          (/\ rec[p].pc = "record"
           /\ ~rec[p].is_auto_typed_in_db
           /\ Len(recommendations') = Len(recommendations) + 1) =>
              LET row == recommendations'[Len(recommendations')]
                  user_type == rec[p].user_specified_type
              IN  /\ row.user_requested_type = user_type
                  /\ row.actual_recommend_type =
                        IF user_type # Null THEN user_type
                        ELSE RowOf(analysis, rec[p].bid).determined_b_type]_vars

\* on the store with the administrator's type tech, an invocation with the
\* user type stream has left its row
C21_Witness ==
    /\ IsManual(1)
    /\ RowOf(analysis, 1).determined_b_type = "tech"
    /\ \E i \in 2..Len(recommendations) :
          /\ recommendations[i].bid = 1
          /\ recommendations[i].user_requested_type = "stream"
          /\ recommendations[i].actual_recommend_type = "stream"

\* two rows of BeatmapAnalysis that differ at most in the probabilities
\* and in oracle_last_run_at
SameButProbabilities(r1, r2) ==
    [r1 EXCEPT !.stream_prob = r2.stream_prob, !.jump_prob = r2.jump_prob,
               !.alt_prob = r2.alt_prob, !.tech_prob = r2.tech_prob,
               !.oracle_last_run_at = r2.oracle_last_run_at] = r2

\* C22 (Case B, probabilities-only refresh): no step of an invocation that
\* read a row with is_auto_typed = 0 changes BeatmapAnalysis when its
\* oracle call failed; when the oracle call succeeded, a step changes at
\* most the four probabilities and oracle_last_run_at of the beatmap's
\* row, and the committed refresh stores the probabilities of the answer.
C22_ProbabilitiesOnlyRefresh ==
    [][\A p \in RecProcs :
          (rec'[p] # rec[p] /\
           (~rec[p].is_auto_typed_in_db \/ ~rec'[p].is_auto_typed_in_db)) =>
              IF ~rec[p].raw_oracle_probabilities.isdict
              THEN analysis' = analysis
              ELSE /\ \A r \in analysis : r.bid # rec[p].bid => r \in analysis'
                   /\ HasRow(analysis', rec[p].bid)
                   /\ Cardinality(analysis') = Cardinality(analysis)
                   /\ SameButProbabilities(RowOf(analysis, rec[p].bid),
                                           RowOf(analysis', rec[p].bid))
                   /\ "probs" \in rec'[p].writes \ rec[p].writes =>
                         LET row == RowOf(analysis', rec[p].bid)
                             d == rec[p].raw_oracle_probabilities.items
                         IN  /\ row.stream_prob = DictGet(d, "stream")
                             /\ row.jump_prob = DictGet(d, "jump")
                             /\ row.alt_prob = DictGet(d, "alt")
                             /\ row.tech_prob = DictGet(d, "tech")
                             /\ row.oracle_last_run_at = clock]_vars

\* the manual row (tech, jump 80) after the refresh of an invocation whose
\* oracle answered stream 40, jump 30
C22_Witness ==
    \E p \in RecProcs :
        /\ rec[p].pc = "record"
        /\ ~rec[p].is_auto_typed_in_db
        /\ "probs" \in rec[p].writes
        /\ LET row == RowOf(analysis, rec[p].bid)
           IN  /\ row.determined_b_type = "tech"
               /\ ~row.is_auto_typed
               /\ row.stream_prob = 40
               /\ row.jump_prob = 30

\* C24 (Case A stores the derived probabilities): after the analysis write
\* of an invocation that resolved in Case A, each of stream_prob,
\* jump_prob, alt_prob and tech_prob of the beatmap's row equals the sum
\* that the normalization computed for that type (NULL when it computed
\* none), whatever spelling or alias the oracle used for its labels.
C24_StoredProbsNormalized ==
    \A p \in RecProcs :
        (/\ rec[p].pc = "record"
         /\ rec[p].is_auto_typed_in_db
         /\ "analysis" \in rec[p].writes
         /\ HasRow(analysis, rec[p].bid)) =>
            LET row == RowOf(analysis, rec[p].bid)
                normalized_probs ==
                    IF Truthy(rec[p].raw_oracle_probabilities)
                    THEN NormalizedOf(p) ELSE <<>>
            IN  /\ row.stream_prob = DictGet(normalized_probs, "stream")
                /\ row.jump_prob = DictGet(normalized_probs, "jump")
                /\ row.alt_prob = DictGet(normalized_probs, "alt")
                /\ row.tech_prob = DictGet(normalized_probs, "tech")

C25_UnauthorizedInvalidates ==
    [][\A c \in ApiProcs :
          (api[c].pc = "call" /\ api'[c].pc = "done" /\ api'[c].status = 401) =>
              ~(/\ OSU_TOKEN_CACHE'.access_token = api[c].token
                /\ OSU_TOKEN_CACHE'.expires_at > clock' + 300)]_vars

C27_SingleFlight ==
    Cardinality({c \in ApiProcs : api[c].pc = "exchange"}) <= 1

\* the rows of a list result against the queue it was read from: they are
\* rows of the queue, none twice, most recent first, and no row left out
\* is more recent than a row returned
ListedFrom(s, table) ==
    /\ \A i \in 1..Len(s) :
          \E r \in table : /\ r.bid = s[i].bid
                           /\ r.reason_for_pending = s[i].reason_for_pending
                           /\ r.added_to_queue_at = s[i].added_to_queue_at
    /\ \A i, j \in 1..Len(s) :
          i < j => /\ s[i].bid # s[j].bid
                   /\ s[i].added_to_queue_at >= s[j].added_to_queue_at
    /\ \A r \in table :
          (\A i \in 1..Len(s) : s[i].bid # r.bid) =>
              \A i \in 1..Len(s) : r.added_to_queue_at <= s[i].added_to_queue_at

\* the step is the answer to a list command of administrator a
Lists(a) == adm'[a] # adm[a] /\ adm'[a].reply \in {"list", "empty"}

C29_NormalizerNeverRaises ==
    [][\A p \in RecProcs :
          rec[p].pc = "gather" => rec'[p].reply # "raised_in_normalizer"]_vars

----------------------------------------------------------------------------
(* parse_recommend_args, recommend.py 235-266, on the text of a command    *)
(* The text is held as the list of its whitespace-separated tokens, which  *)
(* is what arg_text.split() returns.                                       *)

\* tokens of a command text in one run
MaxParts == 3

\* the token spellings the model uses; "sup2" stands for the one-character
\* token SUPERSCRIPT TWO, and "chuan" for the Chinese alias of stream
ArgTokens == {"123", "007", "sup2", "Jump", "chuan", "nice"}

\* str.isdigit(): every character has the Unicode property Digit, which
\* holds for the decimal digits and for the superscript digits
isdigit(part) == part \in {"123", "007", "sup2"}

\* int(part) raises ValueError on a digit that is no decimal digit
IntRaises(part) == part = "sup2"

\* int(part) on the decimal spellings
int(part) ==
    CASE part = "123" -> 123
      [] part = "007" -> 7

\* " ".join(parts)
RECURSIVE Join(_)
Join(parts) ==
    IF parts = <<>> THEN ""
    ELSE IF Len(parts) = 1 THEN parts[1]
    ELSE parts[1] \o " " \o Join(Tail(parts))

\* recommend.py 245-257: the first loop from token i on, with the locals
\* user_type, bid and used_indices as they stand
RECURSIVE ParseLoop(_, _, _, _, _)
ParseLoop(parts, i, user_type, bid, used_indices) ==
    IF i > Len(parts)
    THEN [raised |-> FALSE, user_type |-> user_type, bid |-> bid,
          used_indices |-> used_indices]
    ELSE LET part == parts[i]
             normalized_part == Lower(part)
         IN  IF isdigit(part) /\ bid = NullNum
             THEN IF IntRaises(part)
                  THEN [raised |-> TRUE, user_type |-> user_type, bid |-> bid,
                        used_indices |-> used_indices]
                  ELSE ParseLoop(parts, i + 1, user_type, int(part),
                                 used_indices \cup {i})
             ELSE IF user_type = Null /\ normalized_part \in AliasKeys
             THEN ParseLoop(parts, i + 1, TYPE_ALIASES[normalized_part], bid,
                            used_indices \cup {i})
             ELSE ParseLoop(parts, i + 1, user_type, bid, used_indices)

\* recommend.py 260-266: the tokens no role has used, in their order
DescriptionParts(parts, used_indices) ==
    LET keep(i) == i \notin used_indices
        RECURSIVE From(_)
        From(i) == IF i > Len(parts) THEN <<>>
                   ELSE IF keep(i) THEN <<parts[i]>> \o From(i + 1)
                   ELSE From(i + 1)
    IN  From(1)

\* recommend.py 235-266
parse_recommend_args(parts) ==
    LET r == ParseLoop(parts, 1, Null, NullNum, {})
        description_parts == DescriptionParts(parts, r.used_indices)
    IN  [raised |-> r.raised,
         user_type |-> r.user_type,
         bid |-> r.bid,
         description |-> IF description_parts # <<>>
                         THEN Join(description_parts)
                         ELSE DefaultDescription]

\* recommend.py 277-295: the command of a bound user arrives with its text;
\* the parser runs
\* and, without a bid, the user's most recent beatmap is looked up (recent:
\* what get_user_recent_beatmap_id returns, NullNum for None).  A ValueError
\* of the parser ends the handler: nothing catches it
RecStartText(p, q, parts, recent) ==
    /\ rec[p].pc \in {"idle", "done"}
    /\ get_user_binding_info(UserBindings, q) # NullNum
    /\ invocations < MaxInvocations
    /\ invocations' = invocations + 1
    /\ LET r == parse_recommend_args(parts)
           final_bid == IF r.bid \in {NullNum, 0} THEN recent ELSE r.bid
       IN  rec' = [rec EXCEPT ![p] =
                     IF r.raised
                     THEN [RecIdle EXCEPT !.pc = "done", !.qqid = q,
                                          !.arg_parts = parts,
                                          !.reply = "raised_in_parser"]
                     ELSE [RecIdle EXCEPT
                              !.pc = IF final_bid = NullNum THEN "done"
                                     ELSE "gather",
                              !.qqid = q,
                              !.arg_parts = parts,
                              !.bid_from_arg = r.bid,
                              !.user_specified_type = r.user_type,
                              !.description_from_arg = r.description,
                              !.bid = IF final_bid = NullNum THEN 0
                                      ELSE final_bid,
                              !.reply = IF final_bid = NullNum
                                        THEN "no_recent_beatmap" ELSE Null]]
    /\ UNCHANGED <<analysis, pending, recommendations, adm, clock,
                   lastOverride, tokenVars, bindVars>>

\* the texts of up to n tokens
TextsOfLen(n) == [1..n -> ArgTokens]

\* one user sends one command, with every text of up to MaxParts tokens
NextParse ==
    /\ rec["r1"].pc = "idle"
    /\ \E q \in QQIds, n \in 0..MaxParts, recent \in {NullNum, 1} :
          \E parts \in TextsOfLen(n) : RecStartText("r1", q, parts, recent)

SpecParse == InitWith({StoreEmpty}) /\ [][NextParse]_vars

----------------------------------------------------------------------------
(* Bindings: the bind and unbind commands of two users, and the recommend  *)
(* command of a user who binds and unbinds                                 *)

\* two users bind and unbind, two commands at a time, on an empty table
NextBind == BindStep(BindProcs, BindUsers, OsuNames)

SpecBind == InitOn({StoreEmpty}, {<<>>}) /\ [][NextBind]_vars

\* one user recommends, binds and unbinds; the binding lookup of the
\* recommend command may fail
NextUnbound ==
    \/ RecStep({"r1"}, {1}, {Null, "jump"},
               {OracleNone, OracleDict(<< <<"stream", 40>>, <<"jump", 30>> >>)})
    \/ \E q \in QQIds, ok \in BOOLEAN : RecNoBinding("r1", q, ok)
    \/ BindStep({"b1"}, QQIds, {"alice"})

SpecUnbound ==
    InitOn({StoreEmpty, StoreManual}, {<<>>, BindingsBound})
        /\ [][NextUnbound]_vars

\* C31 (the classification in the reply is the stored one): right after
\* the analysis write of an invocation, committed or failed, the
\* beatmap's row exists and its determined_b_type is the type the
\* invocation puts in its reply (final_determined_b_type_for_db), also
\* when an override or another command committed since the invocation
\* read the row.
C31_ReplyMatchesStore ==
    [][\A p \in RecProcs :
          (rec[p].pc \in {"store", "probs_only"} /\ rec'[p].pc = "record") =>
              /\ HasRow(analysis', rec[p].bid)
              /\ RowOf(analysis', rec[p].bid).determined_b_type =
                     rec'[p].final_determined_b_type_for_db]_vars

\* C32 (a queued beatmap has an analysis row): in every state, every bid
\* of PendingBeatmapReviews has a row in BeatmapAnalysis.
C32_PendingHasAnalysis ==
    \A r \in pending : HasRow(analysis, r.bid)

\* C33 (a failed oracle call clears the stored probabilities): when the
\* analysis write of an invocation whose oracle call failed commits on
\* an auto-typed row, the row's four probabilities and its
\* oracle_last_run_at become null, whatever they were, and its
\* determined_b_type becomes the type the invocation decided.
C33_FailedOracleClearsProbabilities ==
    [][\A p \in RecProcs :
          (/\ rec[p].pc = "store"
           /\ rec'[p].pc = "record"
           /\ "analysis" \in rec'[p].writes
           /\ ~rec[p].raw_oracle_probabilities.isdict
           /\ HasRow(analysis, rec[p].bid)
           /\ RowOf(analysis, rec[p].bid).is_auto_typed) =>
              LET new == RowOf(analysis', rec[p].bid)
              IN  /\ new.stream_prob = NullNum
                  /\ new.jump_prob = NullNum
                  /\ new.alt_prob = NullNum
                  /\ new.tech_prob = NullNum
                  /\ new.oracle_last_run_at = NullNum
                  /\ new.determined_b_type =
                         rec[p].final_determined_b_type_for_db]_vars

\* the row that held jump 0.8 and a run time holds no probability and no
\* run time after a recommendation with type stream whose oracle call failed
C33_Witness ==
    /\ rec["r1"].pc = "record"
    /\ "analysis" \in rec["r1"].writes
    /\ ~rec["r1"].raw_oracle_probabilities.isdict
    /\ rec["r1"].user_specified_type = "stream"
    /\ \E r \in analysis :
          /\ r.bid = 1
          /\ r.determined_b_type = "stream"
          /\ r.jump_prob = NullNum
          /\ r.oracle_last_run_at = NullNum

\* C36 (a failed token exchange leaves the cache alone): a token request
\* that gives its caller no token leaves OSU_TOKEN_CACHE as it was, and
\* one that changes the cache gives its caller the token and has set
\* access_token to that token and expires_at to the time of the
\* response plus a lifetime, both in the same step.
C36_FailedExchangeLeavesCache ==
    [][\A c \in ApiProcs :
          (api[c].pc = "exchange" /\ api'[c].pc # "exchange") =>
              /\ api'[c].token = NullNum => OSU_TOKEN_CACHE' = OSU_TOKEN_CACHE
              /\ OSU_TOKEN_CACHE' # OSU_TOKEN_CACHE =>
                    /\ api'[c].token # NullNum
                    /\ OSU_TOKEN_CACHE'.access_token = api'[c].token
                    /\ \E e \in ExpiresIn \ {NullNum} :
                          OSU_TOKEN_CACHE'.expires_at = clock + e]_vars

\* the roles of the tokens of a text, stated on the text: the index of the
\* first all-digit token, and of the first other token that is an alias
FirstDigit(parts) ==
    LET D == {i \in 1..Len(parts) : isdigit(parts[i])}
    IN  IF D = {} THEN 0 ELSE CHOOSE i \in D : \A j \in D : i <= j
FirstAlias(parts) ==
    LET A == {i \in 1..Len(parts) :
                 i # FirstDigit(parts) /\ Lower(parts[i]) \in AliasKeys}
    IN  IF A = {} THEN 0 ELSE CHOOSE i \in A : \A j \in A : i <= j
Remaining(parts) ==
    LET role(part_i) == part_i \in {FirstDigit(parts), FirstAlias(parts)}
        RECURSIVE From(_)
        From(i) == IF i > Len(parts) THEN <<>>
                   ELSE IF role(i) THEN From(i + 1)
                   ELSE <<parts[i]>> \o From(i + 1)
    IN  From(1)

\* the result held by invocation p is the one the roles give
ParserRolesHold(p) ==
    LET parts == rec[p].arg_parts
        b == FirstDigit(parts)
        a == FirstAlias(parts)
    IN  /\ rec[p].reply # "raised_in_parser"
        /\ rec[p].bid_from_arg =
               IF b = 0 THEN NullNum
               ELSE CASE parts[b] = "123" -> 123
                      [] parts[b] = "007" -> 7
                      [] OTHER -> NullNum
        /\ rec[p].user_specified_type =
               IF a = 0 THEN Null ELSE TYPE_ALIASES[Lower(parts[a])]
        /\ rec[p].description_from_arg =
               IF Remaining(parts) = <<>> THEN DefaultDescription
               ELSE Join(Remaining(parts))

\* C35 (the parser gives every token one role): for every text, the
\* parser returns; the bid is the number of the first all-digit token, or
\* absent; the type is the canonical type of the first token that is an
\* alias in any letter case, or absent; and the description is the other
\* tokens in their order joined by single spaces, or the placeholder.
C35_ParserRoles ==
    \A p \in RecProcs : rec[p].arg_parts # <<>> => ParserRolesHold(p)

\* the same for the texts whose all-digit tokens are decimal numbers
ParserRolesDecimal ==
    \A p \in RecProcs :
        (/\ rec[p].arg_parts # <<>>
         /\ \A i \in 1..Len(rec[p].arg_parts) :
                ~IntRaises(rec[p].arg_parts[i])) => ParserRolesHold(p)

\* the user has a row in UserBindings
Bound(table, qqid) == \E i \in 1..Len(table) : table[i].qqid = qqid

\* C34 (no binding, no recommendation): a recommend command of a user
\* without a row in UserBindings ends at once with the instruction to
\* bind, and that step changes no table, sends no API request and leaves
\* the token cache alone; and a Recommendations row is appended only by
\* an invocation that passed that check, with that invocation's qqid.
C34_UnboundCallerStopped ==
    [][/\ \A p \in RecProcs :
             (/\ rec[p].pc \in {"idle", "done"}
              /\ rec'[p] # rec[p]
              /\ ~Bound(UserBindings, rec'[p].qqid)) =>
                 /\ rec'[p].pc = "done"
                 /\ rec'[p].reply = "bind_first"
                 /\ UNCHANGED <<analysis, pending, recommendations,
                                tokenVars, UserBindings>>
       /\ Len(recommendations') > Len(recommendations) =>
             \E p \in RecProcs :
                 /\ rec[p].pc = "record"
                 /\ recommendations'[Len(recommendations')].qqid = rec[p].qqid]_vars

\* an unbound user was told to bind, and there is still no row at all
C34_Witness ==
    /\ rec["r1"].pc = "done"
    /\ rec["r1"].reply = "bind_first"
    /\ rec["r1"].qqid = 10001
    /\ ~Bound(UserBindings, 10001)
    /\ analysis = {} /\ pending = {} /\ recommendations = <<>>

\* C37 (bindings are one to one): in every state, no two rows of
\* UserBindings have the same qqid and no two have the same osu_uid.
C37_BindingsOneToOne ==
    \A i, j \in 1..Len(UserBindings) :
        i # j => /\ UserBindings[i].qqid # UserBindings[j].qqid
                 /\ UserBindings[i].osu_uid # UserBindings[j].osu_uid

====
